---- MODULE Spec2Model ----
(***************************************************************************)
(* A model of apy-ops: the retry envelope of the REST transport            *)
(* (apim_client.py), the execution order of a plan (planner.py), the       *)
(* applier (applier.py), the local state backend and its lock (state.py)   *)
(* and the apply / extract / force-unlock commands (cli.py, extractor.py). *)
(***************************************************************************)
EXTENDS Integers, Sequences, FiniteSets, TLC

VARIABLES
    lockFile,   \* LocalStateBackend: <state_file>.lock, NoFile or the pid written into it
    store,      \* LocalStateBackend: the state file, Missing or a state document
    args,       \* per process: the parsed command line of the invocation
    pc,         \* per process: position in the command
    state,      \* per process: the in-memory state dict the command works on
    loc,        \* per process: locals of apply_plan / apply_force / extract
    log,        \* per process: history of client calls and backend writes
    holds,      \* per process: lock() returned and unlock() was not called since
    exitCode,   \* per process: NotExited or the exit status
    rq,         \* the retry envelope of one logical request (attempt by attempt)
    ordIn,      \* argument of one order_changes call
    ordOut,     \* its result, NotCalled before the call
    fnIn,       \* arguments of one call of a pure function of the program
    fnOut,      \* its result, NotCalled before the call
    tok,        \* one ApimClient's clock and token cache
    fs,         \* one state file, its .tmp, and the writers and the reader of it
    blob        \* one state blob's lease and the backend object that locks it

vars == <<lockFile, store, args, pc, state, loc, log, holds, exitCode, rq, ordIn, ordOut, fnIn, fnOut, tok, fs, blob>>

procVars == <<lockFile, store, args, pc, state, loc, log, holds, exitCode>>

(***************************************************************************)
(* Bounds of the model.                                                    *)
(***************************************************************************)
NumKeys == 3        \* artifacts of the Catalog that plans, trees and states range over
MaxOrderLen == 3    \* longest change list handed to order_changes on its own

(***************************************************************************)
(* Python values.                                                          *)
(***************************************************************************)
None == "<None>"

Contains(s, sub) ==
    \E i \in 1..(Len(s) - Len(sub) + 1) : SubSeq(s, i, i + Len(sub) - 1) = sub

\* `sub in s` for a str or None right operand: None is not iterable.
PyIn(sub, s) ==
    IF s = None THEN "TypeError" ELSE IF Contains(s, sub) THEN "True" ELSE "False"

DigitChars == "0123456789"

IsDigit(c) == \E d \in 1..10 : SubSeq(DigitChars, d, d) = c

DigitVal(c) == (CHOOSE d \in 1..10 : SubSeq(DigitChars, d, d) = c) - 1

\* int(s) succeeds on a non-empty string of decimal digits (the headers of the model
\* carry no sign and no blanks).
IsIntStr(s) ==
    /\ Len(s) > 0
    /\ \A i \in 1..Len(s) : IsDigit(SubSeq(s, i, i))

RECURSIVE ParseInt(_)
ParseInt(s) ==
    IF Len(s) = 0 THEN 0
    ELSE 10 * ParseInt(SubSeq(s, 1, Len(s) - 1)) + DigitVal(SubSeq(s, Len(s), Len(s)))

(***************************************************************************)
(* differ.py: change actions.                                              *)
(***************************************************************************)
CREATE == "create"
UPDATE == "update"
DELETE == "delete"
NOOP == "noop"

(***************************************************************************)
(* artifacts/__init__.py: the registry.                                    *)
(***************************************************************************)
\* The registry with the apis moved to its end.
DEPLOY_ORDER_api_last ==
    << "named_value", "gateway", "tag", "version_set", "backend", "logger",
       "diagnostic", "policy_fragment", "service_policy", "product", "group",
       "subscription", "api_policy", "api_tag", "api_diagnostic",
       "gateway_api", "product_policy", "product_group", "product_tag",
       "product_api", "api_operation_policy", "api" >>

DEPLOY_ORDER ==
    << "named_value", "gateway", "tag", "version_set", "backend", "logger",
       "diagnostic", "policy_fragment", "service_policy", "product", "group",
       "api", "subscription", "api_policy", "api_tag", "api_diagnostic",
       "gateway_api", "product_policy", "product_group", "product_tag",
       "product_api", "api_operation_policy" >>

ARTIFACT_TYPES == { DEPLOY_ORDER[i] : i \in 1..Len(DEPLOY_ORDER) }

(***************************************************************************)
(* planner.py: order_changes.                                              *)
(***************************************************************************)
UnknownTypeOrder == 999

\* type_order.get(t, 999), type_order = {mod.ARTIFACT_TYPE: i for i, mod in enumerate(DEPLOY_ORDER)}
type_order(t) ==
    IF t \in ARTIFACT_TYPES
    THEN (CHOOSE i \in 1..Len(DEPLOY_ORDER) : DEPLOY_ORDER[i] = t) - 1
    ELSE UnknownTypeOrder

\* A sort that, in reverse, puts an element before the equal ones already placed.
RECURSIVE list_sort_reverse_unstable(_, _)
list_sort_reverse_unstable(s, reverse) ==
    IF s = <<>> THEN <<>>
    ELSE LET sorted == list_sort_reverse_unstable(SubSeq(s, 1, Len(s) - 1), reverse)
             x == s[Len(s)]
             kx == type_order(x.type)
             NotAfter(y) == IF reverse THEN type_order(y.type) > kx
                                       ELSE type_order(y.type) <= kx
             k == Cardinality({ j \in 1..Len(sorted) : NotAfter(sorted[j]) })
         IN SubSeq(sorted, 1, k) \o <<x>> \o SubSeq(sorted, k + 1, Len(sorted))

\* list.sort(key=..., reverse=...): stable in both directions, equal keys keep
\* their original relative order.
RECURSIVE list_sort(_, _)
list_sort(s, reverse) ==
    IF s = <<>> THEN <<>>
    ELSE LET sorted == list_sort(SubSeq(s, 1, Len(s) - 1), reverse)
             x == s[Len(s)]
             kx == type_order(x.type)
             NotAfter(y) == IF reverse THEN type_order(y.type) >= kx
                                       ELSE type_order(y.type) <= kx
             k == Cardinality({ j \in 1..Len(sorted) : NotAfter(sorted[j]) })
         IN SubSeq(sorted, 1, k) \o <<x>> \o SubSeq(sorted, k + 1, Len(sorted))

order_changes_unsorted(changes) ==
    SelectSeq(changes, LAMBDA c : c.action \in {CREATE, UPDATE})
        \o SelectSeq(changes, LAMBDA c : c.action = DELETE)

order_changes(changes) ==
    LET creates_updates == SelectSeq(changes, LAMBDA c : c.action \in {CREATE, UPDATE})
        deletes == SelectSeq(changes, LAMBDA c : c.action = DELETE)
    IN list_sort(creates_updates, FALSE) \o list_sort(deletes, TRUE)

(***************************************************************************)
(* exceptions.py: the fault classes and their two families.                *)
(***************************************************************************)
TransientClasses ==
    { "ApimRateLimitError", "ApimConflictError", "ApimPreconditionFailedError",
      "ApimUnprocessableEntityError", "ApimServerError" }

PermanentClasses ==
    { "ApimBadRequestError", "ApimUnauthorizedError", "ApimForbiddenError",
      "ApimNotFoundError" }

\* isinstance(e, ApimTransientError)
IsApimTransientError(cls) == cls \in TransientClasses

\* isinstance(e, ApimPermanentError)
IsApimPermanentError(cls) == cls \in PermanentClasses

(***************************************************************************)
(* apim_client.py: what one HTTP attempt can produce.  A response carries  *)
(* a status, a body (JSON with an error object whose code may be absent,   *)
(* or text that is not JSON) and possibly a Retry-After header; the        *)
(* attempt can also raise in the HTTP library before any response.         *)
(***************************************************************************)
MAX_RETRIES == 5
INITIAL_BACKOFF == 1

\* Statuses whose retry depends on the error code, and the others of the model.
CodeStatuses == {409, 422}

PlainStatuses == {200, 204, 400, 401, 403, 404, 412, 418, 429, 500, 503}

Statuses == CodeStatuses \cup PlainStatuses

ErrorCodes ==
    { "PessimisticConcurrencyConflict", "Conflict", "ResourceConflict",
      "ManagementApiFailure", "ValidationError", "" }

NotJson == [json |-> FALSE, code |-> None]

JsonError(code) == [json |-> TRUE, code |-> code]

Bodies == {NotJson} \cup { JsonError(c) : c \in ErrorCodes \cup {None} }

PlainBodies == {NotJson, JsonError("ValidationError")}

\* An RFC 7231 date that lies before every run of the program.
PastHttpDate == "Wed, 21 Oct 2015 07:28:00 GMT"

RetryAfterHeaders == {None, "3", "0", "soon", PastHttpDate}

Response(status, body, retry_after) ==
    [raises |-> None, status |-> status, body |-> body, retry_after |-> retry_after]

\* requests.request raised instead of returning.
Raised(cls) ==
    [raises |-> cls, status |-> 0, body |-> NotJson, retry_after |-> None]

Responses ==
    { Response(s, b, h) : s \in CodeStatuses, b \in Bodies, h \in RetryAfterHeaders }
    \cup { Response(s, b, h) : s \in PlainStatuses, b \in PlainBodies, h \in RetryAfterHeaders }

Attempts == Responses \cup {Raised("ConnectionError")}

\* _parse_error: the error object's code, None when the body is not JSON or the
\* error object has none.
_parse_error(response) ==
    [code |-> IF response.body.json THEN response.body.code ELSE None]

\* _should_retry with the conflict test left out: 409 never retried.
_should_retry_no_409(status, error_detail) ==
    IF status = 429 THEN "True"
    ELSE IF status = 412 THEN "True"
    ELSE IF status >= 500 THEN "True"
    ELSE IF status = 422 THEN PyIn("ManagementApiFailure", error_detail.code)
    ELSE "False"

\* _should_retry with the 5xx test off by one: 500 itself not retried.
_should_retry_gt_500(status, error_detail) ==
    IF status = 429 THEN "True"
    ELSE IF status = 412 THEN "True"
    ELSE IF status > 500 THEN "True"
    ELSE IF status = 409 THEN
        LET error_code == error_detail.code
            first == PyIn("PessimisticConcurrencyConflict", error_code)
        IN IF first # "False" THEN first ELSE PyIn("Conflict", error_code)
    ELSE IF status = 422 THEN PyIn("ManagementApiFailure", error_detail.code)
    ELSE "False"

\* _should_retry: "True", "False", or "TypeError" when `in` meets a None code
\* (error_detail always has the key "code", so .get's default is never used).
_should_retry(status, error_detail) ==
    IF status = 429 THEN "True"
    ELSE IF status = 412 THEN "True"
    ELSE IF status >= 500 THEN "True"
    ELSE IF status = 409 THEN
        LET error_code == error_detail.code
            first == PyIn("PessimisticConcurrencyConflict", error_code)
        IN IF first # "False" THEN first ELSE PyIn("Conflict", error_code)
    ELSE IF status = 422 THEN PyIn("ManagementApiFailure", error_detail.code)
    ELSE "False"

\* strptime(retry_after, "%a, %d %b %Y %H:%M:%S %Z") succeeds: of the headers of
\* the model only PastHttpDate has that format.
IsHttpDate(s) == s = PastHttpDate

\* max(1, delay) of the date branch.
py_max(a, b) == IF a >= b THEN a ELSE b

\* _parse_retry_after: the header as integer seconds, else as an HTTP date, else
\* the default.  int(dt.timestamp() - time.time()) is negative for a date that is
\* past; the model takes one second ago.
_parse_retry_after(response, default) ==
    LET retry_after == response.retry_after
    IN IF retry_after = None \/ retry_after = "" THEN default
       ELSE IF IsIntStr(retry_after) THEN ParseInt(retry_after)
       ELSE IF IsHttpDate(retry_after) THEN LET delay == 0 - 1 IN py_max(1, delay)
       ELSE default

\* _create_exception: the class the status maps to.
_create_exception(status) ==
    IF status = 429 THEN "ApimRateLimitError"
    ELSE IF status = 409 THEN "ApimConflictError"
    ELSE IF status = 412 THEN "ApimPreconditionFailedError"
    ELSE IF status = 422 THEN "ApimUnprocessableEntityError"
    ELSE IF status >= 500 THEN "ApimServerError"
    ELSE IF status = 400 THEN "ApimBadRequestError"
    ELSE IF status = 401 THEN "ApimUnauthorizedError"
    ELSE IF status = 403 THEN "ApimForbiddenError"
    ELSE IF status = 404 THEN "ApimNotFoundError"
    ELSE "ApimError"

(***************************************************************************)
(* apim_client.py: _with_retry.  An envelope is the wrapper's frame:       *)
(* attempt is the loop variable, calls counts the HTTP attempts made,      *)
(* sleeps lists the time.sleep arguments, result is Pending while the loop *)
(* runs, Returned when it returned a response, else the class raised;      *)
(* last is the response of the latest attempt.                             *)
(***************************************************************************)
Pending == "pending"
Returned == "returned"

\* What the envelope keeps of an attempt's outcome.
Seen(resp) ==
    [raises |-> resp.raises, status |-> resp.status, body |-> resp.body,
     retry_after |-> resp.retry_after]

NewEnvelope ==
    [attempt |-> 0, backoff |-> INITIAL_BACKOFF, calls |-> 0, sleeps |-> <<>>,
     result |-> Pending, last |-> Seen(Raised(None))]

\* The retry test with the budget off by one: a sixth retry.
retry_allowed_one_more(attempt) == attempt <= MAX_RETRIES

\* The retry test of the loop.
retry_allowed(attempt) == attempt < MAX_RETRIES

\* The backoff left as it was after a retry.
next_backoff_same(backoff) == backoff

\* `backoff *= 2`, on every iteration that retries.
next_backoff(backoff) == backoff * 2

\* One iteration of `for attempt in range(MAX_RETRIES + 1)` on the attempt's outcome.
wrapper_iter(env, resp) ==
    LET made == [env EXCEPT !.calls = @ + 1, !.last = Seen(resp)]
    IN IF resp.raises # None THEN [made EXCEPT !.result = resp.raises]
       ELSE IF resp.status < 400 THEN [made EXCEPT !.result = Returned]
       ELSE LET error_detail == _parse_error(resp)
                should_retry == _should_retry(resp.status, error_detail)
            IN IF should_retry = "TypeError" THEN [made EXCEPT !.result = "TypeError"]
               ELSE IF should_retry = "True" /\ retry_allowed(env.attempt)
               THEN [made EXCEPT !.sleeps = Append(@, _parse_retry_after(resp, env.backoff)),
                                 !.backoff = next_backoff(@),
                                 !.attempt = @ + 1,
                                 \* range(MAX_RETRIES + 1) used up: the raise after the loop
                                 !.result = IF env.attempt + 1 > MAX_RETRIES
                                            THEN _create_exception(resp.status) ELSE Pending]
               ELSE [made EXCEPT !.result = _create_exception(resp.status)]

\* The whole wrapper on the outcomes the attempts will have, in order.
RECURSIVE wrapper_from(_, _)
wrapper_from(env, script) ==
    IF env.result # Pending \/ script = <<>> THEN env
    ELSE wrapper_from(wrapper_iter(env, Head(script)), Tail(script))

wrapper(script) == wrapper_from(NewEnvelope, script)

(***************************************************************************)
(* The artifacts of the model, in lexicographic key order.  Each exists in *)
(* two versions: "v0", the one recorded by an earlier run, and "v1", the   *)
(* one of the source tree.                                                 *)
(***************************************************************************)
Catalog ==
    << [type |-> "api", id |-> "echo", operations |-> <<"get-echo">>],
       [type |-> "api_policy", id |-> "echo", operations |-> <<>>],
       [type |-> "backend", id |-> "b1", operations |-> <<>>],
       [type |-> "logger", id |-> "l1", operations |-> <<>>],
       [type |-> "product", id |-> "p1", operations |-> <<>>] >>

KeyOf(item) == item.type \o ":" \o item.id

SortedKeys == [i \in 1..NumKeys |-> KeyOf(Catalog[i])]

Keys == { SortedKeys[i] : i \in 1..NumKeys }

Item(key) == Catalog[CHOOSE i \in 1..NumKeys : KeyOf(Catalog[i]) = key]

Versions == {"v0", "v1"}

\* An artifact as read_local / read_live build it.
Artifact(key, ver) ==
    [type |-> Item(key).type, id |-> Item(key).id, hash |-> "sha256:" \o ver,
     properties |-> [displayName |-> Item(key).id, rev |-> ver],
     operations |-> Item(key).operations, spec |-> None]

NoArtifact ==
    [type |-> None, id |-> None, hash |-> None,
     properties |-> [displayName |-> None, rev |-> None],
     operations |-> <<>>, spec |-> None]

\* A state entry that drops the hash.
StateEntry_no_hash(artifact) ==
    [type |-> artifact.type, id |-> artifact.id, hash |-> None,
     properties |-> artifact.properties]

\* A state entry that keeps the whole artifact, spec and operations included.
StateEntry_whole(artifact) == artifact

\* The entry of state["artifacts"]: type, id, hash and properties only.
StateEntry(artifact) ==
    [type |-> artifact.type, id |-> artifact.id, hash |-> artifact.hash,
     properties |-> artifact.properties]

EmptyArtifacts == [k \in {} |-> StateEntry(NoArtifact)]

(***************************************************************************)
(* state.py: the state document and the local backend.                     *)
(***************************************************************************)
Doc(artifacts, last_applied) ==
    [exists |-> TRUE, artifacts |-> artifacts, last_applied |-> last_applied]

\* read() of a state file that does not exist returns None.
Missing == [exists |-> FALSE, artifacts |-> EmptyArtifacts, last_applied |-> None]

\* empty_state(...): no artifacts, last_applied None.
empty_state == Doc(EmptyArtifacts, None)

NoFile == "<no lock file>"

\* lock() without O_EXCL: the open always succeeds.
lock_acquires_always(file) == TRUE

\* lock(): os.open(O_CREAT | O_EXCL) succeeds iff the sidecar does not exist.
lock_acquires(file) == file = NoFile

\* The state of an earlier run: some artifacts recorded at "v0".
RecordedState(S) == Doc([k \in S |-> StateEntry(Artifact(k, "v0"))], "t:earlier")

InitialStores == {Missing, empty_state, RecordedState({SortedKeys[1]}), RecordedState(Keys)}

(***************************************************************************)
(* differ.py / planner.py: a plan document as `plan --out` saves it, one   *)
(* change per key in key order.                                            *)
(***************************************************************************)
Actions == {CREATE, UPDATE, DELETE, NOOP}

Change(key, action) ==
    [action |-> action, key |-> key, type |-> Item(key).type, id |-> Item(key).id,
     old |-> IF action = CREATE THEN NoArtifact ELSE Artifact(key, "v0"),
     new |-> IF action = DELETE THEN NoArtifact
             ELSE IF action = NOOP THEN Artifact(key, "v0")
             ELSE Artifact(key, "v1")]

Count(changes, action) ==
    Cardinality({ i \in 1..Len(changes) : changes[i].action = action })

\* generate_plan: the summary counts the changes by action.
PlanDoc(changes) ==
    [given |-> TRUE, changes |-> changes,
     summary |-> [create |-> Count(changes, CREATE), update |-> Count(changes, UPDATE),
                  delete |-> Count(changes, DELETE), noop |-> Count(changes, NOOP)]]

NoPlan ==
    [given |-> FALSE, changes |-> <<>>,
     summary |-> [create |-> 0, update |-> 0, delete |-> 0, noop |-> 0]]

Plans ==
    { PlanDoc([i \in 1..NumKeys |-> Change(SortedKeys[i], f[i])]) :
        f \in [1..NumKeys -> Actions] }

(***************************************************************************)
(* cli.py: the invocations.                                                *)
(***************************************************************************)
Procs == {"p1", "p2", "p3"}

\* The pid in a lock file left behind by a run that died before the model starts.
EarlierPid == "p0"

NoOnly == {}

OnlySets == {NoOnly, {"api"}}

Idle ==
    [command |-> "none", plan |-> NoPlan, force |-> FALSE, update_state |-> FALSE,
     source |-> {}, only |-> NoOnly]

ApplyPlanFile(plan) == [Idle EXCEPT !.command = "apply", !.plan = plan]

ApplyForce(source, only) ==
    [Idle EXCEPT !.command = "apply", !.force = TRUE, !.source = source, !.only = only]

ApplyFromSource(source) == [Idle EXCEPT !.command = "apply", !.source = source]

Extract(update_state, only) ==
    [Idle EXCEPT !.command = "extract", !.update_state = update_state, !.only = only]

ForceUnlock == [Idle EXCEPT !.command = "force-unlock"]

PlanFromSource(source) == [Idle EXCEPT !.command = "plan", !.source = source]

Invocations ==
    { ApplyPlanFile(plan) : plan \in Plans }
    \cup { ApplyForce(source, only) : source \in SUBSET Keys, only \in OnlySets }
    \cup { ApplyFromSource(Keys) }
    \cup { Extract(u, only) : u \in BOOLEAN, only \in OnlySets }
    \cup { ForceUnlock }
    \cup { PlanFromSource(Keys) }

(***************************************************************************)
(* The client calls of the applier.  A call runs the whole retry envelope  *)
(* on the outcomes its attempts meet; the scripts are the outcome          *)
(* sequences a call of the process model can meet.                         *)
(***************************************************************************)
Ok200 == Response(200, NotJson, None)
Busy503 == Response(503, NotJson, None)
Bad400 == Response(400, JsonError("ValidationError"), None)
Gone404 == Response(404, JsonError("ResourceNotFound"), None)
Teapot418 == Response(418, NotJson, None)
ResourceConflict409 == Response(409, JsonError("ResourceConflict"), None)
NoCode409 == Response(409, NotJson, None)

Repeat(resp, n) == [i \in 1..n |-> resp]

Scripts ==
    { <<Ok200>>, <<Busy503, Ok200>>, <<Bad400>>, <<Gone404>>, <<Teapot418>>, <<NoCode409>>,
      <<Raised("ConnectionError")>>,
      Repeat(ResourceConflict409, MAX_RETRIES + 1),
      Repeat(Busy503, MAX_RETRIES + 1) }

\* The scripts on which the wrapper ends (it never runs out of outcomes).
CallScripts == { script \in Scripts : wrapper(script).result # Pending }

Succeeded == "ok"

\* ApimClient.put: the wrapper's exception, if any, goes to the caller.
client_put(env) == IF env.result = Returned THEN Succeeded ELSE env.result

\* ApimClient.delete without the 404 exemption.
client_delete_strict(env) == IF env.result = Returned THEN Succeeded ELSE env.result

\* ApimClient.delete: ApimNotFoundError is swallowed.
client_delete(env) ==
    IF env.result \in {Returned, "ApimNotFoundError"} THEN Succeeded ELSE env.result

client_call(method, env) ==
    IF method = "DELETE" THEN client_delete(env) ELSE client_put(env)

\* mod.resource_path(id) of the kinds of the Catalog.
resource_path(type, id) ==
    CASE type = "api" -> "/apis/" \o id
      [] type = "api_policy" -> "/apis/" \o id \o "/policies/policy"
      [] type = "backend" -> "/backends/" \o id
      [] type = "logger" -> "/loggers/" \o id
      [] type = "product" -> "/products/" \o id

\* The PUT of the resource alone, operations not pushed.
put_calls_parent_only(artifact) ==
    << [method |-> "PUT", path |-> resource_path(artifact.type, artifact.id)] >>

\* The PUTs that push one artifact: the resource, then each operation of an api.
put_calls(artifact) ==
    << [method |-> "PUT", path |-> resource_path(artifact.type, artifact.id)] >>
    \o (IF artifact.type = "api"
        THEN [j \in 1..Len(artifact.operations) |->
                 [method |-> "PUT",
                  path |-> "/apis/" \o artifact.id \o "/operations/" \o artifact.operations[j]]]
        ELSE <<>>)

\* _apply_change: the client calls of one change, in order.
change_calls(change) ==
    IF change.action \in {CREATE, UPDATE} THEN put_calls(change.new)
    ELSE IF change.action = DELETE
    THEN << [method |-> "DELETE", path |-> resource_path(change.type, change.old.id)] >>
    ELSE <<>>

\* state["artifacts"][key] = {...}
SetEntry(artifacts, key, artifact) ==
    [k \in (DOMAIN artifacts) \cup {key} |->
        IF k = key THEN StateEntry(artifact) ELSE artifacts[k]]

\* state["artifacts"].pop(key, None)
PopEntry(artifacts, key) == [k \in (DOMAIN artifacts) \ {key} |-> artifacts[k]]

\* _update_state that records nothing.
_update_state_skip(change, artifacts) == artifacts

\* _update_state that keeps deleted entries.
_update_state_no_pop(change, artifacts) ==
    IF change.action \in {CREATE, UPDATE} THEN SetEntry(artifacts, change.key, change.new)
    ELSE artifacts

\* _update_state: the artifacts mapping after a successful change.
_update_state(change, artifacts) ==
    IF change.action \in {CREATE, UPDATE} THEN SetEntry(artifacts, change.key, change.new)
    ELSE IF change.action = DELETE THEN PopEntry(artifacts, change.key)
    ELSE artifacts

\* str(e) of the exceptions of the model.
PyStr(exc) ==
    CASE exc = "TypeError" -> "argument of type 'NoneType' is not iterable"
      [] exc = "ConnectionError" -> "Connection aborted."
      [] OTHER -> "HTTP error (" \o exc \o ")"

\* _format_error_message: context, message (code and request id left out).
_format_error_message(exc, context) == context \o ": " \o PyStr(exc)

\* The except clauses of apply_plan: the message the run reports.
error_message(exc) ==
    IF IsApimTransientError(exc)
    THEN _format_error_message(exc, "Transient error (exhausted retries)")
    ELSE IF IsApimPermanentError(exc)
    THEN _format_error_message(exc, "Permanent error")
    ELSE PyStr(exc)

\* apply_plan walking the changes in plan order.
executable_changes_plan_order(plan) ==
    SelectSeq(plan.changes, LAMBDA c : c.action \in {CREATE, UPDATE, DELETE})

\* apply_plan: the changes it executes, in execution order.
executable_changes(plan) ==
    order_changes(SelectSeq(plan.changes, LAMBDA c : c.action \in {CREATE, UPDATE, DELETE}))

\* apply_force: the artifacts it pushes, kind by kind in registry order.
RECURSIVE force_list(_, _, _)
force_list(source, only, m) ==
    IF m > Len(DEPLOY_ORDER) THEN <<>>
    ELSE LET mine == IF only # {} /\ DEPLOY_ORDER[m] \notin only THEN <<>>
                     ELSE SelectSeq([i \in 1..NumKeys |-> Artifact(SortedKeys[i], "v1")],
                                    LAMBDA a : KeyOf(a) \in source /\ a.type = DEPLOY_ORDER[m])
         IN mine \o force_list(source, only, m + 1)

\* "; ".join(errors)
RECURSIVE Join(_)
Join(errors) ==
    IF Len(errors) = 1 THEN errors[1]
    ELSE errors[1] \o "; " \o Join(Tail(errors))

NotExited == -1

NewLocals ==
    [ordered |-> <<>>, artifacts |-> <<>>, i |-> 0, call |-> 0, success |-> 0,
     total |-> 0, error |-> None, errors |-> <<>>, uncaught |-> None, req |-> NewEnvelope,
     m |-> 0, all_artifacts |-> [k \in {} |-> NoArtifact], entry |-> EmptyArtifacts,
     live |-> [type |-> None, raised |-> None, artifacts |-> [k \in {} |-> NoArtifact]]]

\* A client call or a backend write, with the lock file and the process's own
\* lock()/unlock() bracket at that moment.
Event(p, op, key, path, ok, doc) ==
    [op |-> op, key |-> key, path |-> path, ok |-> ok, doc |-> doc,
     lock |-> lockFile, holding |-> holds[p]]

(***************************************************************************)
(* The commands, one process per invocation.                               *)
(***************************************************************************)
Exit(p, code) ==
    /\ pc' = [pc EXCEPT ![p] = "done"]
    /\ exitCode' = [exitCode EXCEPT ![p] = code]

Now(p) == "t:" \o p

\* cmd_apply with --plan: load the plan, stop when it has no change or the
\* operator declines, else go on to lock.
CmdApplyLoadPlan(p) ==
    /\ pc[p] = "start"
    /\ args[p].command = "apply"
    /\ args[p].plan.given
    /\ LET summary == args[p].plan.summary
       IN IF summary.create = 0 /\ summary.update = 0 /\ summary.delete = 0
          THEN Exit(p, 0)
          ELSE \E approved \in BOOLEAN :
                  IF approved
                  THEN pc' = [pc EXCEPT ![p] = "lock"] /\ UNCHANGED exitCode
                  ELSE Exit(p, 0)
    /\ UNCHANGED <<lockFile, store, args, state, loc, log, holds, rq, ordIn, ordOut, fnIn, fnOut, tok, fs, blob>>

\* cmd_apply without --plan: read the state; --force goes on to lock; otherwise
\* generate_plan is called with subscription_id=, resource_group= and service_name=,
\* which planner.generate_plan does not take: TypeError, the process dies.
CmdApplyNoPlan(p) ==
    /\ pc[p] = "start"
    /\ args[p].command = "apply"
    /\ ~args[p].plan.given
    /\ IF ~store.exists
       THEN Exit(p, 1) /\ UNCHANGED <<state, loc>>
       ELSE /\ state' = [state EXCEPT ![p] = store]
            /\ IF args[p].force
               THEN pc' = [pc EXCEPT ![p] = "lock"] /\ UNCHANGED <<exitCode, loc>>
               ELSE /\ Exit(p, 1)
                    /\ loc' = [loc EXCEPT ![p].uncaught =
                                  "TypeError: generate_plan() got an unexpected keyword argument"]
    /\ UNCHANGED <<lockFile, store, args, log, holds, rq, ordIn, ordOut, fnIn, fnOut, tok, fs, blob>>

\* cmd_apply going into its try block without backend.lock().
BackendLock_skipped(p) ==
    /\ pc[p] = "lock"
    /\ pc' = [pc EXCEPT ![p] = "locked"]
    /\ UNCHANGED <<lockFile, holds, exitCode, loc, store, args, state, log, rq, ordIn, ordOut, fnIn, fnOut, tok, fs, blob>>

\* backend.lock() of cmd_apply: outside the try, so a failure leaves the command
\* with the RuntimeError and without unlock().
BackendLock(p) ==
    /\ pc[p] = "lock"
    /\ IF lock_acquires(lockFile)
       THEN /\ lockFile' = p
            /\ holds' = [holds EXCEPT ![p] = TRUE]
            /\ pc' = [pc EXCEPT ![p] = "locked"]
            /\ UNCHANGED exitCode
            /\ UNCHANGED loc
       ELSE /\ Exit(p, 1)
            /\ loc' = [loc EXCEPT ![p].uncaught = "RuntimeError: State file is locked"]
            /\ UNCHANGED <<lockFile, holds>>
    /\ UNCHANGED <<store, args, state, log, rq, ordIn, ordOut, fnIn, fnOut, tok, fs, blob>>

\* Under the lock: state = backend.read() or {"artifacts": {}}, then apply_plan up
\* to its loop (normal mode).
ApplyPlanBegin(p) ==
    /\ pc[p] = "locked"
    /\ ~args[p].force
    /\ state' = [state EXCEPT ![p] = IF store.exists THEN store ELSE empty_state]
    /\ LET ordered == executable_changes(args[p].plan)
       IN IF ordered = <<>>
          THEN /\ loc' = [loc EXCEPT ![p] = [NewLocals EXCEPT !.error = None]]
               /\ pc' = [pc EXCEPT ![p] = "unlock"]
          ELSE /\ loc' = [loc EXCEPT ![p] =
                            [NewLocals EXCEPT !.ordered = ordered, !.total = Len(ordered),
                                              !.i = 1, !.call = 1,
                                              !.entry = state'[p].artifacts]]
               /\ pc' = [pc EXCEPT ![p] = "change"]
    /\ UNCHANGED <<lockFile, store, args, log, holds, exitCode, rq, ordIn, ordOut, fnIn, fnOut, tok, fs, blob>>

\* One client call of _apply_change(change, client) for the change of the loop.
ApplyChangeCall(p) ==
    /\ pc[p] = "change"
    /\ LET change == loc[p].ordered[loc[p].i]
           calls == change_calls(change)
           call == calls[loc[p].call]
       IN \E script \in CallScripts :
            LET env == wrapper(script)
                outcome == client_call(call.method, env)
            IN /\ log' = [log EXCEPT ![p] =
                            Append(@, Event(p, call.method, change.key, call.path,
                                            outcome = Succeeded, Missing))]
               /\ IF outcome = Succeeded
                  THEN IF loc[p].call < Len(calls)
                       THEN /\ loc' = [loc EXCEPT ![p].call = @ + 1, ![p].req = env]
                            /\ UNCHANGED pc
                       ELSE /\ loc' = [loc EXCEPT ![p].req = env]
                            /\ pc' = [pc EXCEPT ![p] = "persist"]
                  ELSE /\ loc' = [loc EXCEPT ![p].req = env,
                                             ![p].error = error_message(outcome)]
                       /\ pc' = [pc EXCEPT ![p] = "unlock"]
    /\ UNCHANGED <<lockFile, store, args, state, holds, exitCode, rq, ordIn, ordOut, fnIn, fnOut, tok, fs, blob>>

\* After the calls of a change succeeded: _update_state, backend.write, success += 1,
\* and on to the next change.
ApplyChangeDone(p) ==
    /\ pc[p] = "persist"
    /\ LET change == loc[p].ordered[loc[p].i]
           after == [state[p] EXCEPT !.artifacts = _update_state(change, @)]
       IN /\ state' = [state EXCEPT ![p] = after]
          /\ store' = after
          /\ log' = [log EXCEPT ![p] =
                        Append(@, Event(p, "write", change.key, "", TRUE, after))]
    /\ loc' = [loc EXCEPT ![p].success = @ + 1, ![p].i = @ + 1, ![p].call = 1]
    /\ pc' = [pc EXCEPT ![p] = IF loc[p].i < loc[p].total THEN "change" ELSE "stamp"]
    /\ UNCHANGED <<lockFile, args, holds, exitCode, rq, ordIn, ordOut, fnIn, fnOut, tok, fs, blob>>

\* apply_plan returning after its loop without the stamp and the last write.
ApplyPlanFinish_no_stamp(p) ==
    /\ pc[p] = "stamp"
    /\ pc' = [pc EXCEPT ![p] = "unlock"]
    /\ UNCHANGED <<lockFile, store, state, log, args, loc, holds, exitCode, rq, ordIn, ordOut, fnIn, fnOut, tok, fs, blob>>

\* After the loop: last_applied, one more write, return (success, total, None).
ApplyPlanFinish(p) ==
    /\ pc[p] = "stamp"
    /\ LET after == [state[p] EXCEPT !.last_applied = Now(p)]
       IN /\ state' = [state EXCEPT ![p] = after]
          /\ store' = after
          /\ log' = [log EXCEPT ![p] =
                        Append(@, Event(p, "write", "", "", TRUE, after))]
    /\ pc' = [pc EXCEPT ![p] = "unlock"]
    /\ UNCHANGED <<lockFile, args, loc, holds, exitCode, rq, ordIn, ordOut, fnIn, fnOut, tok, fs, blob>>

\* apply_force that keeps the entries the state had.
ApplyForceBegin_keeps_entries(p) ==
    /\ pc[p] = "locked"
    /\ args[p].force
    /\ state' = [state EXCEPT ![p] = IF store.exists THEN store ELSE empty_state]
    /\ LET artifacts == force_list(args[p].source, args[p].only, 1)
       IN /\ loc' = [loc EXCEPT ![p] =
                        [NewLocals EXCEPT !.artifacts = artifacts, !.i = 1, !.call = 1]]
          /\ pc' = [pc EXCEPT ![p] = IF artifacts = <<>> THEN "forcestamp" ELSE "force"]
    /\ UNCHANGED <<lockFile, store, args, log, holds, exitCode, rq, ordIn, ordOut, fnIn, fnOut, tok, fs, blob>>

\* Under the lock, --force: state = backend.read() or {...}, then apply_force up to
\* its loop: the artifacts mapping is emptied.
ApplyForceBegin(p) ==
    /\ pc[p] = "locked"
    /\ args[p].force
    /\ state' = [state EXCEPT ![p] =
                    [(IF store.exists THEN store ELSE empty_state)
                        EXCEPT !.artifacts = EmptyArtifacts]]
    /\ LET artifacts == force_list(args[p].source, args[p].only, 1)
       IN /\ loc' = [loc EXCEPT ![p] =
                        [NewLocals EXCEPT !.artifacts = artifacts, !.i = 1, !.call = 1]]
          /\ pc' = [pc EXCEPT ![p] = IF artifacts = <<>> THEN "forcestamp" ELSE "force"]
    /\ UNCHANGED <<lockFile, store, args, log, holds, exitCode, rq, ordIn, ordOut, fnIn, fnOut, tok, fs, blob>>

\* apply_force giving up at the first artifact that fails.
force_after_error_stops(more) == "forcestamp"

\* The except clauses of apply_force: the error is collected and the loops go on.
force_after_error(more) == IF more THEN "force" ELSE "forcestamp"

\* One client call of apply_force for the artifact of the loop; a failure is
\* collected and the loop goes on.
ApplyForceCall(p) ==
    /\ pc[p] = "force"
    /\ LET artifact == loc[p].artifacts[loc[p].i]
           calls == put_calls(artifact)
           call == calls[loc[p].call]
           more == loc[p].i < Len(loc[p].artifacts)
           counted == IF loc[p].call = 1 THEN loc[p].total + 1 ELSE loc[p].total
       IN \E script \in CallScripts :
            LET env == wrapper(script)
                outcome == client_put(env)
            IN /\ log' = [log EXCEPT ![p] =
                            Append(@, Event(p, call.method, KeyOf(artifact), call.path,
                                            outcome = Succeeded, Missing))]
               /\ IF outcome = Succeeded
                  THEN IF loc[p].call < Len(calls)
                       THEN /\ loc' = [loc EXCEPT ![p].call = @ + 1, ![p].req = env,
                                                  ![p].total = counted]
                            /\ UNCHANGED pc
                       ELSE /\ loc' = [loc EXCEPT ![p].req = env, ![p].total = counted]
                            /\ pc' = [pc EXCEPT ![p] = "forcepersist"]
                  ELSE /\ loc' = [loc EXCEPT ![p].req = env, ![p].total = counted,
                                             ![p].errors = Append(@, error_message(outcome)),
                                             ![p].i = @ + 1, ![p].call = 1]
                       /\ pc' = [pc EXCEPT ![p] = force_after_error(more)]
    /\ UNCHANGED <<lockFile, store, args, state, holds, exitCode, rq, ordIn, ordOut, fnIn, fnOut, tok, fs, blob>>

\* apply_force after the PUTs of an artifact succeeded: the entry, backend.write,
\* success += 1.
ApplyForceDone(p) ==
    /\ pc[p] = "forcepersist"
    /\ LET artifact == loc[p].artifacts[loc[p].i]
           after == [state[p] EXCEPT !.artifacts = SetEntry(@, KeyOf(artifact), artifact)]
       IN /\ state' = [state EXCEPT ![p] = after]
          /\ store' = after
          /\ log' = [log EXCEPT ![p] =
                        Append(@, Event(p, "write", KeyOf(artifact), "", TRUE, after))]
    /\ loc' = [loc EXCEPT ![p].success = @ + 1, ![p].i = @ + 1, ![p].call = 1]
    /\ pc' = [pc EXCEPT ![p] =
                IF loc[p].i < Len(loc[p].artifacts) THEN "force" ELSE "forcestamp"]
    /\ UNCHANGED <<lockFile, args, holds, exitCode, rq, ordIn, ordOut, fnIn, fnOut, tok, fs, blob>>

\* apply_force after the loop: last_applied, one more write; apply_plan joins the
\* errors into the message it returns.
ApplyForceFinish(p) ==
    /\ pc[p] = "forcestamp"
    /\ LET after == [state[p] EXCEPT !.last_applied = Now(p)]
       IN /\ state' = [state EXCEPT ![p] = after]
          /\ store' = after
          /\ log' = [log EXCEPT ![p] =
                        Append(@, Event(p, "write", "", "", TRUE, after))]
    /\ loc' = [loc EXCEPT ![p].error =
                  IF loc[p].errors = <<>> THEN None ELSE Join(loc[p].errors)]
    /\ pc' = [pc EXCEPT ![p] = "unlock"]
    /\ UNCHANGED <<lockFile, args, holds, exitCode, rq, ordIn, ordOut, fnIn, fnOut, tok, fs, blob>>

\* The finally clause of cmd_apply: backend.unlock() removes the sidecar whoever
\* wrote it; then sys.exit(1 if error else 0).
\* A finally that unlocks only when the try block ended without error.
BackendUnlock_on_success_only(p) ==
    /\ pc[p] = "unlock"
    /\ IF loc[p].uncaught = None /\ loc[p].error \in {None, ""}
       THEN /\ lockFile' = NoFile
            /\ holds' = [holds EXCEPT ![p] = FALSE]
            /\ Exit(p, 0)
       ELSE /\ Exit(p, 1)
            /\ UNCHANGED <<lockFile, holds>>
    /\ UNCHANGED <<store, args, state, loc, log, rq, ordIn, ordOut, fnIn, fnOut, tok, fs, blob>>

BackendUnlock(p) ==
    /\ pc[p] = "unlock"
    /\ lockFile' = NoFile
    /\ holds' = [holds EXCEPT ![p] = FALSE]
    /\ Exit(p, IF loc[p].uncaught # None THEN 1
               ELSE IF loc[p].error \in {None, ""} THEN 0 ELSE 1)
    /\ UNCHANGED <<store, args, state, loc, log, rq, ordIn, ordOut, fnIn, fnOut, tok, fs, blob>>

\* An exception that leaves the try block of cmd_apply: backend.read() at its
\* start, or the backend.write(state) after the loop of apply_plan or apply_force,
\* raises (an OSError, a JSONDecodeError); the finally runs next.
ApplyRaises(p) ==
    /\ pc[p] \in {"locked", "stamp", "forcestamp"}
    /\ args[p].command = "apply"
    /\ loc' = [loc EXCEPT ![p].uncaught = "OSError"]
    /\ pc' = [pc EXCEPT ![p] = "unlock"]
    /\ UNCHANGED <<lockFile, store, args, state, log, holds, exitCode, rq, ordIn, ordOut, fnIn, fnOut, tok, fs, blob>>

\* The process is killed between lock() and unlock(): nothing is cleaned up.
Killed(p) ==
    /\ pc[p] \in {"locked", "change", "persist", "stamp", "force", "forcepersist",
                  "forcestamp", "unlock"}
    /\ pc' = [pc EXCEPT ![p] = "killed"]
    /\ UNCHANGED <<lockFile, store, args, state, loc, log, holds, exitCode, rq, ordIn, ordOut, fnIn, fnOut, tok, fs, blob>>

\* cmd_extract up to the call of extract: with --update-state the state is read
\* here, and replaced by empty_state(...) when there is none.
CmdExtractStart(p) ==
    /\ pc[p] = "start"
    /\ args[p].command = "extract"
    /\ state' = [state EXCEPT ![p] =
                    IF args[p].update_state /\ store.exists THEN store ELSE empty_state]
    /\ loc' = [loc EXCEPT ![p] = [NewLocals EXCEPT !.m = 1, !.entry = state'[p].artifacts]]
    /\ pc' = [pc EXCEPT ![p] = "extract"]
    /\ UNCHANGED <<lockFile, store, args, log, holds, exitCode, rq, ordIn, ordOut, fnIn, fnOut, tok, fs, blob>>

\* What read_live of a kind can return: the artifact of the Catalog of that kind,
\* in either version, or nothing.
LiveArtifacts(type) ==
    {[k \in {} |-> NoArtifact]}
    \cup { [k \in {key} |-> Artifact(key, ver)] :
             key \in { k \in Keys : Item(k).type = type }, ver \in Versions }

\* dict.update
DictUpdate(d, e) == [k \in (DOMAIN d) \cup (DOMAIN e) |-> IF k \in DOMAIN e THEN e[k] ELSE d[k]]

\* Where a kind can raise inside the try of extract (any exception class).
ExtractFaults == {None, "read_live", "write_local"}

\* The latest turn of extract's loop: the kind read_live was called on, where the
\* kind raised (if it did) and what read_live returned.
LiveCall(type, raised, artifacts) == [type |-> type, raised |-> raised, artifacts |-> artifacts]

\* An extract that gives up on the kinds after one that raised.
kind_after_error_gives_up(m) == Len(DEPLOY_ORDER) + 1

\* The except clauses of extract: the loop goes on with the next kind.
kind_after_error(m) == m + 1

\* extract: one turn of `for mod in DEPLOY_ORDER`; a kind that raises in read_live
\* or in write_local is reported and skipped (write_local runs only on a non-empty
\* result).
ExtractKind(p) ==
    /\ pc[p] = "extract"
    /\ LET type == DEPLOY_ORDER[loc[p].m]
       IN IF args[p].only # {} /\ type \notin args[p].only
          THEN /\ loc' = [loc EXCEPT ![p].m = @ + 1]
               /\ pc' = [pc EXCEPT ![p] = IF loc[p].m = Len(DEPLOY_ORDER)
                                          THEN "extracted" ELSE "extract"]
          ELSE \E raised \in ExtractFaults, artifacts \in LiveArtifacts(type) :
                  LET next == IF raised = None THEN loc[p].m + 1 ELSE kind_after_error(loc[p].m)
                  IN /\ ~(raised = "write_local" /\ DOMAIN artifacts = {})
                     /\ loc' = [loc EXCEPT ![p].m = next,
                                           ![p].all_artifacts =
                                               IF raised # None THEN @
                                               ELSE DictUpdate(@, artifacts),
                                           ![p].live =
                                               LiveCall(type, raised,
                                                        IF raised = "read_live"
                                                        THEN [k \in {} |-> NoArtifact]
                                                        ELSE artifacts)]
                     /\ pc' = [pc EXCEPT ![p] = IF next > Len(DEPLOY_ORDER)
                                                THEN "extracted" ELSE "extract"]
    /\ UNCHANGED <<lockFile, store, args, state, log, holds, exitCode, rq, ordIn, ordOut, fnIn, fnOut, tok, fs, blob>>

\* The extracted entries laid over the entries the state had.
replaced_artifacts_merged(artifacts, all_artifacts) ==
    DictUpdate(artifacts, [k \in DOMAIN all_artifacts |-> StateEntry(all_artifacts[k])])

\* state["artifacts"] = {} and then one entry per extracted artifact.
replaced_artifacts(artifacts, all_artifacts) ==
    [k \in DOMAIN all_artifacts |-> StateEntry(all_artifacts[k])]

\* extract after the loop: with a backend and a state, the artifacts mapping is
\* replaced by the extracted set, last_applied is set and the state is written.
ExtractFinish(p) ==
    /\ pc[p] = "extracted"
    /\ IF args[p].update_state
       THEN LET all_artifacts == loc[p].all_artifacts
                after == [state[p] EXCEPT
                            !.artifacts = replaced_artifacts(@, all_artifacts),
                            !.last_applied = Now(p)]
            IN /\ state' = [state EXCEPT ![p] = after]
               /\ store' = after
               /\ log' = [log EXCEPT ![p] = Append(@, Event(p, "write", "", "", TRUE, after))]
       ELSE UNCHANGED <<state, store, log>>
    /\ Exit(p, 0)
    /\ UNCHANGED <<lockFile, args, loc, holds, rq, ordIn, ordOut, fnIn, fnOut, tok, fs, blob>>

\* A force-unlock that leaves the lock file where it is.
CmdForceUnlock_keeps(p) ==
    /\ pc[p] = "start"
    /\ args[p].command = "force-unlock"
    /\ Exit(p, 0)
    /\ UNCHANGED <<lockFile, store, args, state, loc, log, holds, rq, ordIn, ordOut, fnIn, fnOut, tok, fs, blob>>

\* cmd_force_unlock: backend.force_unlock() is unlock().
CmdForceUnlock(p) ==
    /\ pc[p] = "start"
    /\ args[p].command = "force-unlock"
    /\ lockFile' = NoFile
    /\ Exit(p, 0)
    /\ UNCHANGED <<store, args, state, loc, log, holds, rq, ordIn, ordOut, fnIn, fnOut, tok, fs, blob>>

\* cmd_plan that stamps and writes the state it read.
CmdPlan_writes(p) ==
    /\ pc[p] = "start"
    /\ args[p].command = "plan"
    /\ IF ~store.exists
       THEN Exit(p, 1) /\ UNCHANGED <<state, loc, store>>
       ELSE /\ state' = [state EXCEPT ![p] = store]
            /\ store' = [store EXCEPT !.last_applied = Now(p)]
            /\ Exit(p, 1)
            /\ UNCHANGED loc
    /\ UNCHANGED <<lockFile, args, log, holds, rq, ordIn, ordOut, fnIn, fnOut, tok, fs, blob>>

\* cmd_plan: backend.read(), exit 1 when there is no state; otherwise
\* generate_plan is called with subscription_id=, resource_group= and
\* service_name=, which planner.generate_plan does not take: TypeError, the
\* process dies before print_plan and save_plan.
CmdPlan(p) ==
    /\ pc[p] = "start"
    /\ args[p].command = "plan"
    /\ IF ~store.exists
       THEN Exit(p, 1) /\ UNCHANGED <<state, loc>>
       ELSE /\ state' = [state EXCEPT ![p] = store]
            /\ Exit(p, 1)
            /\ loc' = [loc EXCEPT ![p].uncaught =
                          "TypeError: generate_plan() got an unexpected keyword argument"]
    /\ UNCHANGED <<lockFile, store, args, log, holds, rq, ordIn, ordOut, fnIn, fnOut, tok, fs, blob>>

(***************************************************************************)
(* The retry envelope attempt by attempt, and order_changes on its own.    *)
(***************************************************************************)
\* One HTTP attempt of a request under _with_retry.
RetryAttempt ==
    /\ rq.result = Pending
    /\ \E resp \in Attempts : rq' = wrapper_iter(rq, resp)
    /\ UNCHANGED <<procVars, ordIn, ordOut, fnIn, fnOut, tok, fs, blob>>

NotCalled == [called |-> FALSE, value |-> <<>>]

\* No pure function under call.
NoFnCall ==
    /\ fnIn = [fn |-> "none"]
    /\ fnOut = NotCalled

\* ApimClient.__init__: no token, expiry 0; the clock of the model starts at 0 and
\* refreshes lists the times at which the credential was asked for a token.
NewTokenCache == [now |-> 0, _token |-> None, _token_expiry |-> 0, refreshes |-> <<>>]

\* No _get_token made yet.
NewTokenCall == [consulted |-> FALSE, returned |-> None, before |-> NewTokenCache]

NewClient == [cache |-> NewTokenCache, call |-> NewTokenCall]

\* No state file and no state blob in use.
Unused == [used |-> FALSE]

NoFiles ==
    /\ fs = Unused
    /\ blob = Unused

OrderCall ==
    /\ ~ordOut.called
    /\ ordOut' = [called |-> TRUE, value |-> order_changes(ordIn)]
    /\ UNCHANGED <<procVars, rq, ordIn, fnIn, fnOut, tok, fs, blob>>

(***************************************************************************)
(* Specifications.                                                         *)
(***************************************************************************)
\* The invocations a, b and c, one process each.
Runs(a, b, c) == [p \in Procs |-> IF p = "p1" THEN a ELSE IF p = "p2" THEN b ELSE c]

\* Every process at the start of its command.
ProcsStart ==
    /\ pc = [p \in Procs |-> IF args[p].command = "none" THEN "done" ELSE "start"]
    /\ state = [p \in Procs |-> empty_state]
    /\ loc = [p \in Procs |-> NewLocals]
    /\ log = [p \in Procs |-> <<>>]
    /\ holds = [p \in Procs |-> FALSE]
    /\ exitCode = [p \in Procs |-> NotExited]

NoProcs ==
    /\ lockFile = NoFile
    /\ store = Missing
    /\ args = Runs(Idle, Idle, Idle)
    /\ ProcsStart

\* One invocation at a time, of every shape.
Init ==
    /\ lockFile \in {NoFile, EarlierPid}
    /\ store \in InitialStores
    /\ \E a \in Invocations : args = Runs(a, Idle, Idle)
    /\ ProcsStart
    /\ rq = NewEnvelope
    /\ ordIn = <<>>
    /\ ordOut = NotCalled
    /\ NoFnCall
    /\ tok = NewClient
    /\ NoFiles

Step(p) ==
    \/ CmdApplyLoadPlan(p)
    \/ CmdApplyNoPlan(p)
    \/ BackendLock(p)
    \/ ApplyPlanBegin(p)
    \/ ApplyChangeCall(p)
    \/ ApplyChangeDone(p)
    \/ ApplyPlanFinish(p)
    \/ ApplyForceBegin(p)
    \/ ApplyForceCall(p)
    \/ ApplyForceDone(p)
    \/ ApplyForceFinish(p)
    \/ BackendUnlock(p)
    \/ Killed(p)
    \/ CmdExtractStart(p)
    \/ ExtractKind(p)
    \/ ExtractFinish(p)
    \/ CmdForceUnlock(p)
    \/ CmdPlan(p)

Next == \E p \in Procs : Step(p)

Spec == Init /\ [][Next]_vars

\* The envelope of one request, on every sequence of attempt outcomes.
InitRetry ==
    /\ NoProcs
    /\ rq = NewEnvelope
    /\ ordIn = <<>>
    /\ ordOut = NotCalled
    /\ NoFnCall
    /\ tok = NewClient
    /\ NoFiles

SpecRetry == InitRetry /\ [][RetryAttempt]_vars

\* order_changes on every list of up to MaxOrderLen changes over a few kinds, one
\* of them not in the registry.
OrderKinds == {"api", "api_policy", "backend", "widget"}

OrderChange(n, action, type) == [action |-> action, type |-> type, key |-> n]

\* The list of n changes with the actions and kinds f gives them.
ChangeList(n, f) == [i \in 1..n |-> OrderChange(i, f[i][1], f[i][2])]

InitOrder ==
    /\ NoProcs
    /\ rq = NewEnvelope
    /\ \E n \in 0..MaxOrderLen :
          \E f \in [1..n -> Actions \X OrderKinds] : ordIn = ChangeList(n, f)
    /\ ordOut = NotCalled
    /\ NoFnCall
    /\ tok = NewClient
    /\ NoFiles

SpecOrder == InitOrder /\ [][OrderCall]_vars

\* Two invocations side by side on one state store: applies of short plans, a
\* forced apply, an extract that updates the state, a force-unlock.
OneChangePlan(key, action) ==
    PlanDoc([i \in 1..NumKeys |-> Change(SortedKeys[i],
                                         IF SortedKeys[i] = key THEN action ELSE NOOP)])

ConcInvocations ==
    { ApplyPlanFile(OneChangePlan(SortedKeys[1], CREATE)),
      ApplyPlanFile(OneChangePlan(SortedKeys[2], DELETE)),
      ApplyForce({SortedKeys[3]}, NoOnly),
      Extract(TRUE, {"api"}),
      ForceUnlock,
      PlanFromSource(Keys) }

InitConc ==
    /\ lockFile \in {NoFile, EarlierPid}
    /\ store \in {empty_state, RecordedState({SortedKeys[2]})}
    /\ \E a, b \in ConcInvocations : args = Runs(a, b, Idle)
    /\ ProcsStart
    /\ rq = NewEnvelope
    /\ ordIn = <<>>
    /\ ordOut = NotCalled
    /\ NoFnCall
    /\ tok = NewClient
    /\ NoFiles

SpecConc == InitConc /\ [][Next]_vars

(***************************************************************************)
(* Properties of the retry envelope (SpecRetry).                           *)
(***************************************************************************)
\* The error code of the latest response, None when it has none.
LastCode == _parse_error(rq.last).code

HasCode(code, sub) == code # None /\ Contains(code, sub)

\* The classification table of the transport: is this response transient?
TableTransient(status, code) ==
    \/ status \in {429, 412}
    \/ status >= 500
    \/ status = 409 /\ (HasCode(code, "PessimisticConcurrencyConflict") \/ HasCode(code, "Conflict"))
    \/ status = 422 /\ HasCode(code, "ManagementApiFailure")

\* The fault the table names for a transient status.
TableFault(status) ==
    CASE status = 429 -> "ApimRateLimitError"
      [] status = 412 -> "ApimPreconditionFailedError"
      [] status = 409 -> "ApimConflictError"
      [] status = 422 -> "ApimUnprocessableEntityError"
      [] OTHER -> "ApimServerError"

\* C8: one request makes at most 6 HTTP attempts whatever the responses; a request
\* that ended on a transient response (so every response before it was transient
\* too) made exactly 6 attempts and 5 sleeps and raised the fault of that last
\* response, a transient one.
C8_RetryBudget ==
    /\ rq.calls <= 6
    /\ (/\ rq.result # Pending
        /\ rq.last.raises = None
        /\ rq.last.status >= 400
        /\ TableTransient(rq.last.status, LastCode))
       => /\ rq.calls = 6
          /\ Len(rq.sleeps) = 5
          /\ rq.result = TableFault(rq.last.status)
          /\ rq.result \in TransientClasses

\* A request answered 429 six times: six attempts, five sleeps, ApimRateLimitError.
C8_Witness ==
    /\ rq.result = "ApimRateLimitError"
    /\ rq.last.status = 429
    /\ rq.calls = 6
    /\ Len(rq.sleeps) = 5

KindBefore(t1, t2) ==
    \E a, b \in 1..Len(DEPLOY_ORDER) : a < b /\ DEPLOY_ORDER[a] = t1 /\ DEPLOY_ORDER[b] = t2

\* C4: in the sequence order_changes returns, every CREATE or UPDATE precedes every
\* DELETE; two CREATE/UPDATE changes of kinds K1 < K2 of the registry come K1
\* first; two DELETE changes of kinds K1 < K2 come K2 first.
C4_ExecutionOrder ==
    ordOut.called =>
        LET out == ordOut.value
        IN \A i, j \in 1..Len(out) :
            /\ (out[i].action \in {CREATE, UPDATE} /\ out[j].action = DELETE) => i < j
            /\ (/\ out[i].action \in {CREATE, UPDATE}
                /\ out[j].action \in {CREATE, UPDATE}
                /\ KindBefore(out[i].type, out[j].type)) => i < j
            /\ (/\ out[i].action = DELETE
                /\ out[j].action = DELETE
                /\ KindBefore(out[i].type, out[j].type)) => j < i

\* <<delete api, create api_policy, update backend, delete backend>>-like input: a
\* DELETE given first comes out last and two creates given in reverse come out
\* in registry order.
C4_Witness ==
    /\ ordOut.called
    /\ Len(ordIn) = 3
    /\ ordIn[1].action = DELETE
    /\ ordIn[2].action = CREATE /\ ordIn[2].type = "api_policy"
    /\ ordIn[3].action = UPDATE /\ ordIn[3].type = "backend"
    /\ Len(ordOut.value) = 3
    /\ ordOut.value[1].key = 3
    /\ ordOut.value[2].key = 2
    /\ ordOut.value[3].key = 1

(***************************************************************************)
(* Properties of apply in normal mode (Spec).                              *)
(***************************************************************************)
\* The run of p is apply_plan in normal mode and has entered its loop.
InPlanLoop(p) ==
    /\ args[p].command = "apply"
    /\ args[p].plan.given
    /\ loc[p].total > 0

\* apply_plan of p has returned.
PlanReturned(p) == InPlanLoop(p) /\ pc[p] \in {"unlock", "done"}

IsRest(e) == e.op \in {"PUT", "DELETE"}

\* The execution order of a run: order_changes of the plan's non-NOOP changes.
PlannedOrder(p) == order_changes(SelectSeq(args[p].plan.changes, LAMBDA c : c.action # NOOP))

\* Position of the change with this key in the execution order (0: none).
OrderIndex(p, key) ==
    LET ord == PlannedOrder(p)
        at == { j \in 1..Len(ord) : ord[j].key = key }
    IN IF at = {} THEN 0 ELSE CHOOSE j \in at : TRUE

\* The change is applied in this artifacts mapping: its entry holds the new
\* artifact after CREATE/UPDATE and is gone after DELETE.
AppliedIn(change, artifacts) ==
    IF change.action = DELETE
    THEN change.key \notin DOMAIN artifacts
    ELSE /\ change.key \in DOMAIN artifacts
         /\ artifacts[change.key] = StateEntry(change.new)

\* C1: in a normal-mode run, before any REST call of change i+1 is issued, the
\* state with change i applied has been written through the backend, and that
\* write comes after every REST call of change i, all of which succeeded.
C1_WriteBeforeNextCall ==
    \A p \in Procs : InPlanLoop(p) =>
        LET L == log[p]
            ord == PlannedOrder(p)
        IN \A e \in 1..Len(L) :
              (IsRest(L[e]) /\ OrderIndex(p, L[e].key) > 1) =>
                 LET prev == ord[OrderIndex(p, L[e].key) - 1]
                 IN \E w \in 1..(e - 1) :
                       /\ L[w].op = "write"
                       /\ L[w].key = prev.key
                       /\ L[w].doc.exists
                       /\ AppliedIn(prev, L[w].doc.artifacts)
                       /\ \A r \in 1..(e - 1) :
                             (IsRest(L[r]) /\ L[r].key = prev.key) => (r < w /\ L[r].ok)

\* A run whose log holds a write directly followed by a REST call of the next change.
C1_Witness ==
    \E p \in Procs :
        /\ InPlanLoop(p)
        /\ \E w \in 1..(Len(log[p]) - 1) :
              /\ log[p][w].op = "write"
              /\ IsRest(log[p][w + 1])
              /\ OrderIndex(p, log[p][w + 1].key) = OrderIndex(p, log[p][w].key) + 1

\* The keys of a sequence of events, a run of equal keys counted once.
RECURSIVE Collapse(_)
Collapse(keys) ==
    IF Len(keys) <= 1 THEN keys
    ELSE IF keys[1] = keys[2] THEN Collapse(Tail(keys))
    ELSE <<keys[1]>> \o Collapse(Tail(keys))

\* The changes a run has issued REST calls for, in the order of issue.
Issued(p) ==
    LET rest == SelectSeq(log[p], IsRest)
    IN Collapse([e \in 1..Len(rest) |-> rest[e].key])

\* C2: the changes a normal-mode run issues REST calls for are, in order, the
\* first changes of order_changes(non-NOOP changes of the plan), each once; when
\* apply_plan has returned they are all of them after a run without error, and
\* the changes up to and including the first failing one otherwise.
C2_MutationSequence ==
    \A p \in Procs : InPlanLoop(p) =>
        LET ord == PlannedOrder(p)
            issued == Issued(p)
            rest == SelectSeq(log[p], IsRest)
        IN /\ Len(issued) <= Len(ord)
           /\ \A j \in 1..Len(issued) : issued[j] = ord[j].key
           /\ \A r \in 1..(Len(rest) - 1) : rest[r].ok
           /\ PlanReturned(p) =>
                 IF loc[p].error = None
                 THEN Len(issued) = Len(ord) /\ rest[Len(rest)].ok
                 ELSE /\ Len(issued) = loc[p].success + 1
                      /\ ~rest[Len(rest)].ok

\* A returned run of three changes given out of execution order, all issued.
C2_Witness ==
    \E p \in Procs :
        /\ PlanReturned(p)
        /\ Len(Issued(p)) = 3
        /\ PlannedOrder(p) # SelectSeq(args[p].plan.changes, LAMBDA c : c.action # NOOP)

\* The artifacts mapping after the first n changes of a sequence, by the rule:
\* CREATE/UPDATE puts the entry of the new artifact, DELETE removes the entry.
RECURSIVE AfterChanges(_, _, _)
AfterChanges(artifacts, ord, n) ==
    IF n = 0 THEN artifacts
    ELSE LET before == AfterChanges(artifacts, ord, n - 1)
             c == ord[n]
         IN IF c.action = DELETE
            THEN [k \in (DOMAIN before) \ {c.key} |-> before[k]]
            ELSE [k \in (DOMAIN before) \cup {c.key} |->
                     IF k = c.key THEN StateEntry(c.new) ELSE before[k]]

C10_PermanentConflict ==
    \A p \in Procs :
        (/\ PlanReturned(p)
         /\ loc[p].error # None
         /\ loc[p].req.last = Seen(ResourceConflict409)) =>
            /\ loc[p].req.calls = 1
            /\ loc[p].req.sleeps = <<>>
            /\ loc[p].req.result = "ApimConflictError"
            /\ state[p].artifacts = AfterChanges(loc[p].entry, PlannedOrder(p), loc[p].success)

(***************************************************************************)
(* Properties of the lock (SpecConc).                                      *)
(***************************************************************************)
NoForceUnlock == \A p \in Procs : args[p].command # "force-unlock"

Holders == { p \in Procs : holds[p] }

\* p's lock() returns or raises in this step while another process holds the lock.
SecondLock(p) ==
    /\ pc[p] = "lock"
    /\ pc'[p] # "lock"
    /\ \E q \in Procs \ {p} : holds[q]

C6_ApplyUnderLock ==
    \A p \in Procs : args[p].command = "apply" =>
        /\ \A e \in 1..Len(log[p]) :
              /\ log[p][e].holding
              /\ NoForceUnlock => log[p][e].lock = p
        /\ (log[p] # <<>> /\ pc[p] = "done") => ~holds[p]

\* Two applies have both run to their end, one after the other, each with a
\* REST call and a write in its log.
C6_Witness ==
    \A p \in {"p1", "p2"} :
        /\ args[p].command = "apply"
        /\ pc[p] = "done"
        /\ \E e \in 1..Len(log[p]) : IsRest(log[p][e])
        /\ \E e \in 1..Len(log[p]) : log[p][e].op = "write"

\* C7: an extract with --update-state writes the state only while it holds the
\* lock itself, and never while the lock file names another process.
C7_ExtractUnderLock ==
    \A p \in Procs : (args[p].command = "extract" /\ args[p].update_state) =>
        \A e \in 1..Len(log[p]) :
            log[p][e].op = "write" =>
                /\ log[p][e].holding
                /\ log[p][e].lock \in {NoFile, p}

(***************************************************************************)
(* Fault classes against the retry classification (SpecRetry).             *)
(***************************************************************************)
IsPrefix(pre, str) == Len(pre) <= Len(str) /\ SubSeq(str, 1, Len(pre)) = pre

\* The request has ended by raising on an HTTP error response.
RaisedOnResponse ==
    /\ rq.calls >= 1
    /\ rq.last.raises = None
    /\ rq.last.status >= 400
    /\ rq.result \notin {Pending, Returned}

\* C11: a response the envelope does not retry (a 409 or 422 without a transient
\* code, any other 4xx) is raised as a permanent fault and reported by the applier
\* with the permanent label, never as a transient fault; a response raised after
\* the retries are used up is raised as a transient fault.
C11_FaultMatchesRetryClass ==
    RaisedOnResponse =>
        IF TableTransient(rq.last.status, LastCode)
        THEN rq.result \in TransientClasses
        ELSE /\ rq.result \in PermanentClasses
             /\ rq.result \notin TransientClasses
             /\ IsPrefix("Permanent error", error_message(rq.result))

(***************************************************************************)
(* DELETE answered 404 (Spec).                                             *)
(***************************************************************************)
\* The latest client call of p was answered 404 on its only attempt so far.
LastCallGot404(p) == loc[p].req.last = Seen(Gone404)

\* C12: a DELETE change whose call is answered 404 is a success: the client makes
\* exactly one attempt and raises nothing, the applier removes the key from the
\* state's artifacts, writes that state, counts the change and goes on to the
\* next change (or to the end of the run).
C12_DeleteNotFoundIsSuccess ==
    \A p \in Procs : (InPlanLoop(p) /\ LastCallGot404(p)) =>
        LET L == log[p]
            n == Len(L)
        IN /\ (n >= 1 /\ L[n].op = "DELETE") =>
                 /\ L[n].ok
                 /\ loc[p].req.calls = 1
                 /\ loc[p].req.sleeps = <<>>
                 /\ loc[p].error = None
                 /\ pc[p] \in {"persist", "killed"}
           /\ (n >= 2 /\ L[n].op = "write" /\ L[n - 1].op = "DELETE") =>
                 /\ L[n].key = L[n - 1].key
                 /\ L[n].key \notin DOMAIN L[n].doc.artifacts
                 /\ L[n].key \notin DOMAIN state[p].artifacts
                 /\ store = L[n].doc
                 /\ loc[p].success = OrderIndex(p, L[n].key)
                 /\ loc[p].error = None
                 /\ pc[p] \in {"change", "stamp", "killed"}
                 /\ pc[p] = "change" => loc[p].i = OrderIndex(p, L[n].key) + 1

\* A recorded artifact was deleted on a 404, the state without it is written and
\* the run is at its next change.
C12_Witness ==
    \E p \in Procs :
        /\ InPlanLoop(p)
        /\ LastCallGot404(p)
        /\ Len(log[p]) >= 2
        /\ log[p][Len(log[p])].op = "write"
        /\ log[p][Len(log[p]) - 1].op = "DELETE"
        /\ log[p][Len(log[p])].key \in DOMAIN loc[p].entry
        /\ pc[p] = "change"

(***************************************************************************)
(* differ.py: diff, and the specification that calls it on every pair of   *)
(* mappings over the keys of the model (SpecDiff).                         *)
(***************************************************************************)
\* The characters of the keys of the model, in code point order.
CodePoints == "$-./0123456789:ABCDEFGHIJKLMNOPQRSTUVWXYZ_abcdefghijklmnopqrstuvwxyz"

\* ord(c)
CodePoint(c) == CHOOSE i \in 1..Len(CodePoints) : SubSeq(CodePoints, i, i) = c

\* a < b on str: by the first character that differs, a proper prefix first.
RECURSIVE str_lt(_, _)
str_lt(a, b) ==
    IF b = "" THEN FALSE
    ELSE IF a = "" THEN TRUE
    ELSE LET x == CodePoint(SubSeq(a, 1, 1))
             y == CodePoint(SubSeq(b, 1, 1))
         IN IF x # y THEN x < y
            ELSE str_lt(SubSeq(a, 2, Len(a)), SubSeq(b, 2, Len(b)))

\* sorted(all_keys, reverse=True)
RECURSIVE sorted_desc(_)
sorted_desc(S) ==
    IF S = {} THEN <<>>
    ELSE LET m == CHOOSE x \in S : \A y \in S \ {x} : str_lt(y, x)
         IN <<m>> \o sorted_desc(S \ {m})

\* sorted(all_keys)
RECURSIVE sorted(_)
sorted(S) ==
    IF S = {} THEN <<>>
    ELSE LET m == CHOOSE x \in S : \A y \in S \ {x} : str_lt(x, y)
         IN <<m>> \o sorted(S \ {m})

\* An artifact whose hash and properties are versioned apart.
ArtifactWith(key, hver, pver) == [Artifact(key, pver) EXCEPT !.hash = "sha256:" \o hver]

\* A state entry that is not there: state_artifacts.get(key) is None.
NoEntry == StateEntry(NoArtifact)

\* The UPDATE test on the properties instead of the hash.
differs_by_properties(local, entry) == local.properties # entry.properties

\* local["hash"] != state["hash"] (the state entry is `entry` here)
differs(local, entry) == local.hash # entry.hash

\* The change diff appends for one key (display_name and detail, which only
\* print_plan reads, are left out).  An artifact is a non-empty dict, so
\* `local`/`state` are truthy exactly when the key is in the mapping.
diff_change(key, local_artifacts, state_artifacts) ==
    LET has_local == key \in DOMAIN local_artifacts
        has_state == key \in DOMAIN state_artifacts
        local == IF has_local THEN local_artifacts[key] ELSE NoArtifact
        entry == IF has_state THEN state_artifacts[key] ELSE NoEntry
    IN IF has_local /\ ~has_state
       THEN [action |-> CREATE, key |-> key, type |-> local.type, id |-> local.id,
             old |-> NoEntry, new |-> local]
       ELSE IF has_state /\ ~has_local
       THEN [action |-> DELETE, key |-> key, type |-> entry.type, id |-> entry.id,
             old |-> entry, new |-> NoArtifact]
       ELSE IF differs(local, entry)
       THEN [action |-> UPDATE, key |-> key, type |-> local.type, id |-> local.id,
             old |-> entry, new |-> local]
       ELSE [action |-> NOOP, key |-> key, type |-> local.type, id |-> local.id,
             old |-> entry, new |-> local]

\* diff: one change per key of sorted(all_keys).
diff(local_artifacts, state_artifacts) ==
    LET keys == sorted((DOMAIN local_artifacts) \cup (DOMAIN state_artifacts))
    IN [i \in 1..Len(keys) |-> diff_change(keys[i], local_artifacts, state_artifacts)]

DiffCall ==
    /\ fnIn.fn = "diff"
    /\ ~fnOut.called
    /\ fnOut' = [called |-> TRUE, value |-> diff(fnIn.local, fnIn.state)]
    /\ UNCHANGED <<procVars, rq, ordIn, ordOut, fnIn, tok, fs, blob>>

\* Every local mapping (hash and properties each in two versions) against every
\* state mapping (hash "v0", properties in two versions).
InitDiff ==
    /\ NoProcs
    /\ rq = NewEnvelope
    /\ ordIn = <<>>
    /\ ordOut = NotCalled
    /\ tok = NewClient
    /\ NoFiles
    /\ fnOut = NotCalled
    /\ \E K \in SUBSET Keys, J \in SUBSET Keys :
          \E h \in [K -> Versions \X Versions], g \in [J -> Versions] :
             fnIn = [fn |-> "diff",
                     local |-> [k \in K |-> ArtifactWith(k, h[k][1], h[k][2])],
                     state |-> [k \in J |-> StateEntry(ArtifactWith(k, "v0", g[k]))]]

SpecDiff == InitDiff /\ [][DiffCall]_vars

DiffDone == fnIn.fn = "diff" /\ fnOut.called

\* Position of a key in the lexicographic order of the keys of the model.
KeyRank(key) == CHOOSE i \in 1..NumKeys : SortedKeys[i] = key

\* C13: diff(L, S) holds exactly one change per key of keys(L) \cup keys(S), no
\* change of another key, and the changes are in lexicographic key order.
C13_DiffKeys ==
    DiffDone =>
        LET out == fnOut.value
            U == (DOMAIN fnIn.local) \cup (DOMAIN fnIn.state)
        IN /\ { out[i].key : i \in 1..Len(out) } = U
           /\ Len(out) = Cardinality(U)
           /\ \A i, j \in 1..Len(out) : i < j => KeyRank(out[i].key) < KeyRank(out[j].key)

\* A diff over three keys, one only local and one only in the state.
C13_Witness ==
    /\ DiffDone
    /\ Len(fnOut.value) = 3
    /\ (DOMAIN fnIn.local) \ (DOMAIN fnIn.state) # {}
    /\ (DOMAIN fnIn.state) \ (DOMAIN fnIn.local) # {}

\* C14: the change of key k is CREATE iff k is local only (new the local artifact,
\* no old), DELETE iff k is in the state only (old the state entry, no new),
\* NOOP iff k is on both sides with equal hashes, UPDATE iff on both sides with
\* unequal hashes (old and new both recorded), whatever the properties are.
C14_DiffActions ==
    DiffDone =>
        LET out == fnOut.value
            L == fnIn.local
            S == fnIn.state
        IN \A i \in 1..Len(out) :
              LET c == out[i]
                  k == c.key
                  inL == k \in DOMAIN L
                  inS == k \in DOMAIN S
              IN /\ c.action = CREATE <=> (inL /\ ~inS)
                 /\ c.action = DELETE <=> (inS /\ ~inL)
                 /\ c.action = NOOP <=> (inL /\ inS /\ L[k].hash = S[k].hash)
                 /\ c.action = UPDATE <=> (inL /\ inS /\ L[k].hash # S[k].hash)
                 /\ c.action = CREATE => (c.new = L[k] /\ c.old = NoEntry)
                 /\ c.action = DELETE => (c.old = S[k] /\ c.new = NoArtifact)
                 /\ c.action = UPDATE => (c.old = S[k] /\ c.new = L[k])

\* One diff with a NOOP whose properties differ and an UPDATE whose properties
\* are equal.
C14_Witness ==
    /\ DiffDone
    /\ \E i, j \in 1..Len(fnOut.value) :
          LET a == fnOut.value[i]
              b == fnOut.value[j]
          IN /\ a.action = NOOP
             /\ a.new.properties # a.old.properties
             /\ b.action = UPDATE
             /\ b.new.properties = b.old.properties

(***************************************************************************)
(* planner.py: generate_plan, and an apply of the plan generated from the  *)
(* source tree and the state the run starts from (SpecConverge).           *)
(***************************************************************************)
\* mod.read_local(source_dir) over the modules generate_plan reads: the source
\* tree holds the artifacts of `source`, each in version "v1".
read_local(source, only) ==
    [k \in { key \in source : only = {} \/ Item(key).type \in only } |-> Artifact(k, "v1")]

\* generate_plan without the filter on the state artifacts.
generate_plan_state_unfiltered(source, st, only) ==
    LET state_artifacts == IF st.exists THEN st.artifacts ELSE EmptyArtifacts
    IN PlanDoc(diff(read_local(source, only), state_artifacts))

\* generate_plan(source_dir, state, only): state None gives no state artifacts;
\* with `only` both sides are cut down to the kinds named.
generate_plan(source, st, only) ==
    LET state_artifacts == IF st.exists THEN st.artifacts ELSE EmptyArtifacts
        filtered == IF only # {}
                    THEN [k \in { key \in DOMAIN state_artifacts :
                                     state_artifacts[key].type \in only } |->
                             state_artifacts[k]]
                    ELSE state_artifacts
    IN PlanDoc(diff(read_local(source, only), filtered))

\* A state whose entries are recorded in either version.
StateOf(K, v) == Doc([k \in K |-> StateEntry(Artifact(k, v[k]))], "t:earlier")

\* The plan of the source tree against the store, saved and then applied.
InitConverge ==
    /\ lockFile = NoFile
    /\ \/ store = Missing
       \/ \E K \in SUBSET Keys : \E v \in [K -> Versions] : store = StateOf(K, v)
    /\ \E source \in SUBSET Keys :
          args = Runs([ApplyPlanFile(generate_plan(source, store, NoOnly))
                          EXCEPT !.source = source], Idle, Idle)
    /\ ProcsStart
    /\ rq = NewEnvelope
    /\ ordIn = <<>>
    /\ ordOut = NotCalled
    /\ NoFnCall
    /\ tok = NewClient
    /\ NoFiles

\* The steps of `apply --plan`.
StepPlanApply(p) ==
    \/ CmdApplyLoadPlan(p)
    \/ BackendLock(p)
    \/ ApplyPlanBegin(p)
    \/ ApplyChangeCall(p)
    \/ ApplyChangeDone(p)
    \/ ApplyPlanFinish(p)
    \/ BackendUnlock(p)

NextPlanApply == \E p \in Procs : StepPlanApply(p)

SpecConverge == InitConverge /\ [][NextPlanApply]_vars

\* The key and action of the changes of a sequence.
KeyActions(changes) == { <<changes[i].key, changes[i].action>> : i \in 1..Len(changes) }

\* C15: with the source tree unchanged, no `only` filter and no other writer,
\* when apply_plan has returned k successes of total, the plan of the same source
\* against the stored state has as its non-NOOP changes exactly the total - k
\* changes not applied, same keys and actions; after a run without error its
\* create, update and delete counts are 0.
C15_Convergence ==
    \A p \in Procs : PlanReturned(p) =>
        LET ord == PlannedOrder(p)
            k == loc[p].success
            next == generate_plan(args[p].source, store, NoOnly)
            remaining == SelectSeq(next.changes, LAMBDA c : c.action # NOOP)
        IN /\ KeyActions(remaining) = { <<ord[j].key, ord[j].action>> : j \in (k + 1)..Len(ord) }
           /\ Len(remaining) = loc[p].total - k
           /\ loc[p].error = None =>
                 /\ k = loc[p].total
                 /\ next.summary.create = 0
                 /\ next.summary.update = 0
                 /\ next.summary.delete = 0

\* A run of a create, an update and a delete that failed at its second change.
C15_Witness ==
    \E p \in Procs :
        /\ PlanReturned(p)
        /\ loc[p].total = 3
        /\ loc[p].success = 1
        /\ args[p].plan.summary.create = 1
        /\ args[p].plan.summary.update = 1
        /\ args[p].plan.summary.delete = 1

(***************************************************************************)
(* artifacts/apis.py: read_local of one api directory, read before and     *)
(* after an edit of the directory (SpecApiHash).                           *)
(***************************************************************************)
OpIds == {"op1", "op2"}

OpContents == {"a", "b"}

\* An api directory: its layout, the version of apiInformation.json, and per
\* operation the content of <opId>.json (legacy) or operations/<opId>/policy.xml.
ApiDirs ==
    { [layout |-> l, info |-> i, ops |-> o] :
        l \in {"legacy", "new"}, i \in Versions,
        o \in UNION { [K -> OpContents] : K \in SUBSET OpIds } }

\* _read_operations: the new layout keeps the operation's id path only (nothing
\* under operations/<opId>/ is read); the legacy layout keeps the properties of
\* <opId>.json.
_read_operations(api_id, dir) ==
    [op \in DOMAIN dir.ops |->
        [id |-> "/apis/" \o api_id \o "/operations/" \o op,
         urlTemplate |-> IF dir.layout = "new" THEN None ELSE dir.ops[op]]]

\* json.dumps(..., sort_keys=True, separators=(",", ":")) of the operations.
RECURSIVE json_members(_, _)
json_members(ops, ids) ==
    IF ids = <<>> THEN ""
    ELSE LET op == ops[Head(ids)]
             member == "\"" \o Head(ids) \o "\":{\"id\":\"" \o op.id \o "\""
                       \o (IF op.urlTemplate = None THEN ""
                           ELSE ",\"urlTemplate\":\"" \o op.urlTemplate \o "\"")
                       \o "}"
         IN member \o (IF Tail(ids) = <<>> THEN "" ELSE "," \o json_members(ops, Tail(ids)))

\* The canonical JSON of the composite {"apiInfo", "operations", "spec"}.
canonical(props, operations) ==
    "{\"apiInfo\":{\"displayName\":\"" \o props.displayName \o "\",\"rev\":\"" \o props.rev
    \o "\"},\"operations\":{" \o json_members(operations, sorted(DOMAIN operations))
    \o "},\"spec\":null}"

\* compute_hash: SHA-256 of the canonical JSON, taken as free of collisions.
compute_hash(text) == "sha256:" \o text

\* read_local of apis.py for one directory.
api_read_local(api_id, dir) ==
    LET props == [displayName |-> api_id, rev |-> dir.info]
        operations == _read_operations(api_id, dir)
    IN [type |-> "api", id |-> api_id, hash |-> compute_hash(canonical(props, operations)),
        properties |-> props, spec |-> None, operations |-> operations]

\* read_local, the edit, read_local again, and the diff of the second artifact
\* against the state entry of the first.
ReadApiTwice ==
    /\ fnIn.fn = "read_local"
    /\ ~fnOut.called
    /\ LET before == api_read_local("echo", fnIn.before)
           after == api_read_local("echo", fnIn.after)
       IN fnOut' = [called |-> TRUE,
                    value |-> [before |-> before, after |-> after,
                               changes |-> diff([k \in {"api:echo"} |-> after],
                                                [k \in {"api:echo"} |-> StateEntry(before)])]]
    /\ UNCHANGED <<procVars, rq, ordIn, ordOut, fnIn, tok, fs, blob>>

InitApiHash ==
    /\ NoProcs
    /\ rq = NewEnvelope
    /\ ordIn = <<>>
    /\ ordOut = NotCalled
    /\ tok = NewClient
    /\ NoFiles
    /\ fnOut = NotCalled
    /\ \E before \in ApiDirs, after \in ApiDirs :
          fnIn = [fn |-> "read_local", before |-> before, after |-> after]

SpecApiHash == InitApiHash /\ [][ReadApiTwice]_vars

\* C16: the api is one unit for hashing: when an operation changes (its
\* properties in the legacy layout, the content of its policy.xml in the new
\* layout) and apiInformation.json does not, the hash of api:<id> changes and the
\* diff against the state recorded before is an UPDATE.
C16_ApiHashAtomic ==
    (fnIn.fn = "read_local" /\ fnOut.called) =>
        LET b == fnIn.before
            a == fnIn.after
        IN (/\ b.layout = a.layout
            /\ b.info = a.info
            /\ DOMAIN b.ops = DOMAIN a.ops
            /\ b.ops # a.ops)
           => /\ fnOut.value.before.hash # fnOut.value.after.hash
              /\ fnOut.value.changes[1].action = UPDATE

(***************************************************************************)
(* The api as one unit of apply (Spec).                                    *)
(***************************************************************************)
\* The paths an api must be PUT to: the api, then each of its operations.
ApiPaths(artifact) ==
    <<"/apis/" \o artifact.id>>
    \o [j \in 1..Len(artifact.operations) |->
           "/apis/" \o artifact.id \o "/operations/" \o artifact.operations[j]]

\* The entry of a key in an artifacts mapping, NoEntry when there is none.
EntryOf(artifacts, key) == IF key \in DOMAIN artifacts THEN artifacts[key] ELSE NoEntry

\* C17: for a CREATE or UPDATE of an api the applier PUTs /apis/<id> first and
\* then each /apis/<id>/operations/<op_id>; the state entry api:<id> is written
\* only after all these PUTs succeeded; when one of them fails the entry stays as
\* it was, nothing is written for the api and apply stops there with an error.
C17_ApiAtomicApply ==
    \A p \in Procs : InPlanLoop(p) =>
        LET L == log[p]
            ord == PlannedOrder(p)
        IN \A j \in 1..Len(ord) :
              (ord[j].type = "api" /\ ord[j].action \in {CREATE, UPDATE}) =>
                 LET key == ord[j].key
                     paths == ApiPaths(ord[j].new)
                     puts == SelectSeq(L, LAMBDA e : IsRest(e) /\ e.key = key)
                     writes == { w \in 1..Len(L) : L[w].op = "write" /\ L[w].key = key }
                     failed == \E e \in 1..Len(puts) : ~puts[e].ok
                 IN /\ Len(puts) <= Len(paths)
                    /\ \A e \in 1..Len(puts) : puts[e].op = "PUT" /\ puts[e].path = paths[e]
                    /\ \A w \in writes :
                          /\ Len(SelectSeq(SubSeq(L, 1, w), LAMBDA e : IsRest(e) /\ e.key = key))
                                = Len(paths)
                          /\ ~failed
                          /\ EntryOf(L[w].doc.artifacts, key) = StateEntry(ord[j].new)
                    /\ writes = {} =>
                          EntryOf(state[p].artifacts, key) = EntryOf(loc[p].entry, key)
                    /\ failed =>
                          /\ writes = {}
                          /\ ~puts[Len(puts)].ok
                          /\ ~IsRest(L[Len(L)]) \/ L[Len(L)] = puts[Len(puts)]
                          /\ loc[p].error \notin {None, ""}
                          /\ pc[p] \in {"unlock", "done", "killed"}

\* An UPDATE of a recorded api whose PUT went through and whose operation PUT
\* failed: apply_plan has returned.
C17_Witness ==
    \E p \in Procs :
        /\ PlanReturned(p)
        /\ "api:echo" \in DOMAIN loc[p].entry
        /\ Len(log[p]) >= 2
        /\ LET n == Len(log[p])
           IN /\ log[p][n - 1].path = "/apis/echo" /\ log[p][n - 1].ok
              /\ log[p][n].path = "/apis/echo/operations/get-echo" /\ ~log[p][n].ok

(***************************************************************************)
(* The delays of the retry loop.                                           *)
(***************************************************************************)
RECURSIVE Pow2(_)
Pow2(n) == IF n = 0 THEN 1 ELSE 2 * Pow2(n - 1)

\* The latest attempt was answered by a retry: its delay is the last of sleeps.
JustRetried == rq.result = Pending /\ rq.calls >= 1

HeaderDelays == { ParseInt(h) : h \in { x \in RetryAfterHeaders \ {None} : IsIntStr(x) } } \cup {1}

\* C18: without a Retry-After header the delay before the k-th retry is 2^(k-1)
\* seconds, and the backoff doubles on every retry, also on one whose delay came
\* from the header: after k retries it is 2^k, so every delay is 2^(k-1) or a
\* header's value.
C18_BackoffDoubling ==
    /\ JustRetried =>
          LET k == Len(rq.sleeps)
          IN /\ k = rq.calls
             /\ k <= MAX_RETRIES
             /\ rq.backoff = Pow2(k)
             /\ rq.last.retry_after = None => rq.sleeps[k] = Pow2(k - 1)
    /\ \A i \in 1..Len(rq.sleeps) : rq.sleeps[i] \in HeaderDelays \cup {Pow2(i - 1)}

\* A 429 with Retry-After: 3 and then a 429 without the header: 3 s, then 2 s.
C18_Witness ==
    /\ JustRetried
    /\ rq.sleeps = <<3, 2>>
    /\ rq.last.status = 429
    /\ rq.last.retry_after = None

\* C19: with a Retry-After header the delay is the header's value, integer seconds
\* or the seconds until its date, and at least 1 second whatever the header; a
\* header that does not parse leaves the current backoff as the delay.
C19_RetryAfterDelay ==
    (JustRetried /\ rq.last.retry_after # None) =>
        LET k == Len(rq.sleeps)
            h == rq.last.retry_after
        IN /\ rq.sleeps[k] >= 1
           /\ IsIntStr(h) => rq.sleeps[k] = ParseInt(h)
           /\ IsHttpDate(h) => rq.sleeps[k] = 1
           /\ (~IsIntStr(h) /\ ~IsHttpDate(h)) => rq.sleeps[k] = Pow2(k - 1)

(***************************************************************************)
(* apim_client.py: ApimClient._get_token.  tok.now is time.time(),         *)
(* tok.refreshes the times at which credential.get_token was called,       *)
(* tok.consulted whether the latest _get_token called it, tok.returned the *)
(* token the latest _get_token returned.                                   *)
(***************************************************************************)
MaxClock == 180
ClockStep == 30
MaxRefreshes == 3

\* The margin of `now < self._token_expiry - 60`.
RefreshMargin == 60

\* Seconds a token of the credential stays valid from its issue.
TokenLifetimes == {30, 60, 90, 120}

\* token.token of the n-th token issued.
TokenNames == <<"t1", "t2", "t3", "t4">>

\* `self._token and now < self._token_expiry - 60`
token_cached(cache) ==
    /\ cache._token # None
    /\ cache.now < cache._token_expiry - RefreshMargin

\* time.time() advances between two requests.
ClockTick ==
    /\ tok.cache.now + ClockStep <= MaxClock
    /\ tok' = [tok EXCEPT !.cache.now = @ + ClockStep]
    /\ UNCHANGED <<procVars, rq, ordIn, ordOut, fnIn, fnOut, fs, blob>>

\* _get_token, called by _headers before each HTTP attempt.
GetToken ==
    /\ IF token_cached(tok.cache)
       THEN tok' = [tok EXCEPT !.call = [consulted |-> FALSE, returned |-> tok.cache._token,
                                        before |-> tok.cache]]
       ELSE /\ Len(tok.cache.refreshes) < MaxRefreshes
            /\ \E life \in TokenLifetimes :
                 LET token == [token |-> TokenNames[Len(tok.cache.refreshes) + 1],
                               expires_on |-> tok.cache.now + life]
                 IN tok' = [cache |-> [tok.cache EXCEPT !._token = token.token,
                                                        !._token_expiry = token.expires_on,
                                                        !.refreshes = Append(@, tok.cache.now)],
                            call |-> [consulted |-> TRUE, returned |-> token.token,
                                      before |-> tok.cache]]
    /\ UNCHANGED <<procVars, rq, ordIn, ordOut, fnIn, fnOut, fs, blob>>

\* One client, just constructed.
InitToken ==
    /\ NoProcs
    /\ rq = NewEnvelope
    /\ ordIn = <<>>
    /\ ordOut = NotCalled
    /\ NoFnCall
    /\ tok = NewClient
    /\ NoFiles

NextToken == ClockTick \/ GetToken

SpecToken == InitToken /\ [][NextToken]_vars

\* The latest _get_token reused the cached token exactly when the clock was more
\* than the margin before the cached expiry.
TokenReuseRule ==
    tok.call.returned # None =>
        LET before == tok.call.before
            fresh == before._token # None /\ before.now < before._token_expiry - RefreshMargin
        IN /\ tok.call.consulted <=> ~fresh
           /\ fresh => tok.call.returned = before._token
           /\ tok.call.returned = tok.cache._token

\* No two refreshes less than 60 seconds apart.
OneRefreshPerWindow ==
    \A i, j \in 1..Len(tok.cache.refreshes) :
        i < j => tok.cache.refreshes[j] - tok.cache.refreshes[i] >= RefreshMargin

\* C20: before each HTTP attempt the cached token is reused, the credential not
\* consulted, whenever now < expiry - 60 s, and refreshed otherwise; whatever the
\* requests and the expiries returned, at most one refresh occurs in any 60-second
\* window.
C20_TokenCache == TokenReuseRule /\ OneRefreshPerWindow

(***************************************************************************)
(* A crashed apply, force-unlock and a later apply on one local state      *)
(* store: p1 and p3 apply one-change plans, p2 is the force-unlock.        *)
(***************************************************************************)
InitCrash ==
    /\ lockFile \in {NoFile, EarlierPid}
    /\ store \in {empty_state, RecordedState({SortedKeys[2]})}
    /\ \E a, c \in { ApplyPlanFile(OneChangePlan(SortedKeys[1], CREATE)),
                     ApplyPlanFile(OneChangePlan(SortedKeys[2], DELETE)) } :
          args = Runs(a, ForceUnlock, c)
    /\ ProcsStart
    /\ rq = NewEnvelope
    /\ ordIn = <<>>
    /\ ordOut = NotCalled
    /\ NoFnCall
    /\ tok = NewClient
    /\ NoFiles

NextCrash == \E p \in Procs : StepPlanApply(p) \/ Killed(p) \/ CmdForceUnlock(p)

SpecCrash == InitCrash /\ [][NextCrash]_vars

\* The RuntimeError of LocalStateBackend.lock.
LockedFault == "RuntimeError: State file is locked"

\* This step is a force-unlock command.
ForceUnlockStep ==
    \E q \in Procs : /\ pc[q] = "start"
                     /\ args[q].command = "force-unlock"
                     /\ pc'[q] = "done"

\* This step is q's backend.lock().
LockStep(q) == pc[q] = "lock" /\ pc'[q] # "lock"

\* p died between its lock() and its unlock() and the lock file is the one it
\* wrote; no process that is still running is between its own lock() and unlock().
CrashedHolder(p) ==
    /\ pc[p] = "killed"
    /\ lockFile = p
    /\ \A q \in Procs \ {p} : holds[q] => pc[q] \in {"killed", "done"}

MaxWrites == 2

Writers == {"w1", "w2"}

NoInode == 0

\* The document a writer passes to its n-th write; "d0" is on disk at the start.
DocOf(w, n) == IF n = 1 THEN w \o ".a" ELSE w \o ".b"

FileDocs == {"d0"} \cup { DocOf(w, n) : w \in Writers, n \in 1..MaxWrites }

\* json.dump(state, f, indent=2) and f.write("\n"), as the chunks reaching the file.
json_dump(doc) == << "{" \o doc, doc \o "}" >>

\* json.load on what was read: the document, or JSONDecodeError.
json_load(chunks) ==
    IF \E d \in FileDocs : json_dump(d) = chunks
    THEN CHOOSE d \in FileDocs : json_dump(d) = chunks
    ELSE "JSONDecodeError"

\* A gap left by a write beyond the end of a file.
Hole == "<hole>"

\* write(2) of one chunk at position off of a content.
WriteAt(content, off, chunk) ==
    [k \in 1..py_max(Len(content), off) |->
        IF k = off THEN chunk ELSE IF k <= Len(content) THEN content[k] ELSE Hole]

\* The state serialised straight into the state file.
write_target_in_place == "path"

\* `tmp = self.state_file + ".tmp"`: the name _write opens.
write_target == "tmp"

NewWriter == [pc |-> "idle", fd |-> NoInode, off |-> 1, n |-> 0]

NewReader == [pc |-> "idle", fd |-> NoInode, got |-> <<>>, result |-> None]

\* open(tmp, "w"): the file is created, or truncated when the name exists.
WriteOpen(w) ==
    /\ fs.w[w].pc = "idle"
    /\ fs.w[w].n < MaxWrites
    /\ LET bound == fs.names[write_target]
           fd == IF bound = NoInode THEN Len(fs.inodes) + 1 ELSE bound
       IN fs' = [fs EXCEPT
                   !.inodes = IF bound = NoInode THEN Append(@, <<>>)
                              ELSE [@ EXCEPT ![bound] = <<>>],
                   !.names[write_target] = fd,
                   !.w[w] = [@ EXCEPT !.pc = "open", !.fd = fd, !.off = 1],
                   !.overlap = @ \/ \E v \in Writers \ {w} : fs.w[v].pc # "idle"]
    /\ UNCHANGED <<procVars, rq, ordIn, ordOut, fnIn, fnOut, tok, blob>>

\* One flush of the serialised document; the file is closed after the last.
WriteChunk(w) ==
    /\ fs.w[w].pc = "open"
    /\ LET me == fs.w[w]
           chunks == json_dump(DocOf(w, me.n + 1))
       IN fs' = [fs EXCEPT
                   !.inodes[me.fd] = WriteAt(@, me.off, chunks[me.off]),
                   !.w[w] = [@ EXCEPT !.off = @ + 1,
                                      !.pc = IF me.off = Len(chunks) THEN "replace" ELSE "open"]]
    /\ UNCHANGED <<procVars, rq, ordIn, ordOut, fnIn, fnOut, tok, blob>>

\* os.replace(tmp, self.state_file); FileNotFoundError when the name is gone.
WriteReplace(w) ==
    /\ fs.w[w].pc = "replace"
    /\ IF fs.names[write_target] = NoInode
       THEN fs' = [fs EXCEPT !.w[w] = [@ EXCEPT !.pc = "FileNotFoundError"]]
       ELSE LET names == IF write_target = "path" THEN fs.names
                         ELSE [path |-> fs.names.tmp, tmp |-> NoInode]
            IN fs' = [fs EXCEPT
                        !.names = names,
                        !.committed = @ \cup {json_load(fs.inodes[names.path])},
                        !.w[w] = [@ EXCEPT !.pc = "idle", !.n = @ + 1]]
    /\ UNCHANGED <<procVars, rq, ordIn, ordOut, fnIn, fnOut, tok, blob>>

\* read(): os.path.exists, then open.
ReadOpen ==
    /\ fs.r.pc = "idle"
    /\ IF fs.names.path = NoInode
       THEN fs' = [fs EXCEPT !.r = [@ EXCEPT !.pc = "done", !.result = None]]
       ELSE fs' = [fs EXCEPT !.r = [@ EXCEPT !.pc = "opened", !.fd = fs.names.path]]
    /\ UNCHANGED <<procVars, rq, ordIn, ordOut, fnIn, fnOut, tok, blob>>

\* One read(2) of json.load(f); at end of file the text is parsed.
ReadChunk ==
    /\ fs.r.pc = "opened"
    /\ LET content == fs.inodes[fs.r.fd]
           got == fs.r.got
       IN IF Len(got) < Len(content)
          THEN fs' = [fs EXCEPT !.r.got = Append(got, content[Len(got) + 1])]
          ELSE fs' = [fs EXCEPT !.r = [@ EXCEPT !.pc = "done", !.result = json_load(got)]]
    /\ UNCHANGED <<procVars, rq, ordIn, ordOut, fnIn, fnOut, tok, blob>>

\* A state file holding "d0", or none yet.
InitFile ==
    /\ NoProcs
    /\ rq = NewEnvelope
    /\ ordIn = <<>>
    /\ ordOut = NotCalled
    /\ NoFnCall
    /\ tok = NewClient
    /\ blob = Unused
    /\ \E exists \in BOOLEAN :
          fs = [names |-> [path |-> IF exists THEN 1 ELSE NoInode, tmp |-> NoInode],
                inodes |-> IF exists THEN <<json_dump("d0")>> ELSE <<>>,
                committed |-> IF exists THEN {"d0"} ELSE {},
                existed |-> exists,
                overlap |-> FALSE,
                w |-> [w \in Writers |-> NewWriter],
                r |-> NewReader]

NextFile ==
    \/ \E w \in Writers : WriteOpen(w) \/ WriteChunk(w) \/ WriteReplace(w)
    \/ ReadOpen
    \/ ReadChunk

SpecFile == InitFile /\ [][NextFile]_vars

MaxLocks == 2

\* The lease ids of the object's acquisitions, in order.
LeaseIds == <<"lease1", "lease2">>

Available == [state |-> "available", id |-> None]

Broken == [state |-> "broken", id |-> None]

Leased(id) == [state |-> "leased", id |-> id]

\* A renew thread: started by the lock() that got `lease`; released is set once
\* unlock() or force_unlock() has been called since.
NewThread(lease) == [pc |-> "wait", lease |-> lease, released |-> FALSE, renewals |-> FALSE]

Running(t) == t.pc # "ended"

\* threading.Event.set(): a thread blocked in wait() is woken and its wait()
\* returns True.
EventSet(threads) ==
    [k \in DOMAIN threads |->
        IF threads[k].pc = "wait" THEN [threads[k] EXCEPT !.pc = "woken"] ELSE threads[k]]

MarkReleased(threads) ==
    [k \in DOMAIN threads |->
        IF Running(threads[k]) THEN [threads[k] EXCEPT !.released = TRUE] ELSE threads[k]]

\* lock(): acquire the lease, clear the stop flag, start a renew thread; an
\* acquire that fails is re-raised as RuntimeError.
BlobLock ==
    /\ Len(blob.threads) < MaxLocks
    /\ IF blob.lease.state = "leased"
       THEN blob' = [blob EXCEPT !.raised = "RuntimeError"]
       ELSE LET id == LeaseIds[Len(blob.threads) + 1]
            IN blob' = [blob EXCEPT !.lease = Leased(id),
                                    !._lease = id,
                                    !._stop_renew = FALSE,
                                    !.threads = Append(@, NewThread(id)),
                                    !.raised = None]
    /\ UNCHANGED <<procVars, rq, ordIn, ordOut, fnIn, fnOut, tok, fs>>

\* unlock(): set the stop flag, release the lease (errors swallowed), forget it.
BlobUnlock ==
    /\ blob' = [blob EXCEPT
                  !._stop_renew = TRUE,
                  !.lease = IF blob._lease # None /\ blob.lease = Leased(blob._lease)
                            THEN Available ELSE @,
                  !._lease = None,
                  !.threads = MarkReleased(EventSet(@)),
                  !.raised = None]
    /\ UNCHANGED <<procVars, rq, ordIn, ordOut, fnIn, fnOut, tok, fs>>

\* break_lease(lease_break_period=0) on the blob.
break_lease(lease) == IF lease.state = "leased" THEN Broken ELSE lease

\* force_unlock() on the object: break the lease (errors swallowed), forget it.
BlobForceUnlock ==
    /\ blob' = [blob EXCEPT !.lease = break_lease(@),
                            !._lease = None,
                            !.threads = MarkReleased(@),
                            !.raised = None]
    /\ UNCHANGED <<procVars, rq, ordIn, ordOut, fnIn, fnOut, tok, fs>>

\* force-unlock run by another process: its own backend object breaks the lease.
OtherForceUnlock ==
    /\ blob.lease.state = "leased"
    /\ blob' = [blob EXCEPT !.lease = break_lease(@),
                            !.threads = MarkReleased(@)]
    /\ UNCHANGED <<procVars, rq, ordIn, ordOut, fnIn, fnOut, tok, fs>>

\* `while not self._stop_renew.wait(timeout=LEASE_DURATION / 2)`: woken by set(),
\* or found the flag set, the loop ends; at the timeout the body runs.
RenewWait(k) ==
    /\ k \in DOMAIN blob.threads
    /\ blob.threads[k].pc \in {"wait", "woken"}
    /\ blob' = [blob EXCEPT !.threads[k].pc =
                    IF blob.threads[k].pc = "woken" \/ blob._stop_renew
                    THEN "ended" ELSE "check"]
    /\ UNCHANGED <<procVars, rq, ordIn, ordOut, fnIn, fnOut, tok, fs>>

\* `if self._lease:`
RenewCheck(k) ==
    /\ k \in DOMAIN blob.threads
    /\ blob.threads[k].pc = "check"
    /\ blob' = [blob EXCEPT !.threads[k].pc = IF blob._lease # None THEN "renew" ELSE "wait"]
    /\ UNCHANGED <<procVars, rq, ordIn, ordOut, fnIn, fnOut, tok, fs>>

\* `self._lease.renew()`: the field is read again; on None, or when the service
\* refuses the renewal, the exception ends the loop.
RenewCall(k) ==
    /\ k \in DOMAIN blob.threads
    /\ blob.threads[k].pc = "renew"
    /\ IF blob._lease # None /\ blob.lease = Leased(blob._lease)
       THEN blob' = [blob EXCEPT !.threads[k].pc = "wait",
                                 !.threads[k].renewals = TRUE]
       ELSE blob' = [blob EXCEPT !.threads[k].pc = "ended"]
    /\ UNCHANGED <<procVars, rq, ordIn, ordOut, fnIn, fnOut, tok, fs>>

RenewStep(k) == RenewWait(k) \/ RenewCheck(k) \/ RenewCall(k)

\* A new backend object on a blob nobody has leased.
InitBlob ==
    /\ NoProcs
    /\ rq = NewEnvelope
    /\ ordIn = <<>>
    /\ ordOut = NotCalled
    /\ NoFnCall
    /\ tok = NewClient
    /\ fs = Unused
    /\ blob = [lease |-> Available, _lease |-> None, _stop_renew |-> FALSE,
               threads |-> <<>>, raised |-> None]

NextBlob ==
    \/ BlobLock
    \/ BlobUnlock
    \/ BlobForceUnlock
    \/ OtherForceUnlock
    \/ \E k \in 1..MaxLocks : RenewStep(k)

\* Every renew thread keeps being scheduled.
SpecBlob ==
    /\ InitBlob
    /\ [][NextBlob]_vars
    /\ \A k \in 1..MaxLocks : WF_vars(RenewStep(k))

\* The k-th renew thread was running when unlock() or force_unlock() was called.
ReleasedThread(k) == k \in DOMAIN blob.threads /\ blob.threads[k].released

EndedThread(k) == k \in DOMAIN blob.threads /\ blob.threads[k].pc = "ended"

\* C23: a renew thread that was running when unlock() or force_unlock() was called
\* eventually ends, so it issues no further renewal and does not outlive the lock
\* acquisition that started it.
C23_RenewerTerminates == \A k \in 1..MaxLocks : ReleasedThread(k) ~> EndedThread(k)

(***************************************************************************)
(* apply_force and extract (Spec).                                         *)
(***************************************************************************)
\* apply_force has returned to cmd_apply.
ForceReturned(p) ==
    /\ args[p].command = "apply"
    /\ args[p].force
    /\ pc[p] = "unlock"

\* The PUTs of the resources themselves (not of operations), in the order issued.
ParentPuts(p) ==
    SelectSeq(log[p], LAMBDA e : /\ e.op = "PUT"
                                 /\ e.path = resource_path(Item(e.key).type, Item(e.key).id))

\* The local artifacts of the selected kinds.
Selected(p) ==
    { k \in args[p].source : args[p].only = {} \/ Item(k).type \in args[p].only }

\* The artifacts one of whose PUTs failed.
FailedKeys(p) == { log[p][i].key : i \in { j \in 1..Len(log[p]) : IsRest(log[p][j]) /\ ~log[p][j].ok } }

\* C24: apply_force attempts a PUT for every local artifact of every selected
\* kind, once, in forward registry order, whatever failed before; total is the
\* number of local artifacts read, and success plus the number of collected
\* errors is total.
C24_ForceContinues ==
    \A p \in Procs :
        ForceReturned(p) =>
            LET puts == ParentPuts(p)
            IN /\ Len(puts) = Cardinality(Selected(p))
               /\ { puts[i].key : i \in 1..Len(puts) } = Selected(p)
               /\ \A i, j \in 1..Len(puts) :
                     i < j => type_order(Item(puts[i].key).type) <= type_order(Item(puts[j].key).type)
               /\ loc[p].total = Cardinality(Selected(p))
               /\ Len(loc[p].errors) = Cardinality(FailedKeys(p))
               /\ loc[p].success + Len(loc[p].errors) = loc[p].total

\* Three artifacts pushed: the first failed, the two after it were still attempted
\* and succeeded.
C24_Witness ==
    \E p \in Procs :
        /\ ForceReturned(p)
        /\ Len(ParentPuts(p)) = 3
        /\ ~ParentPuts(p)[1].ok
        /\ loc[p].success = 2
        /\ Len(loc[p].errors) = 1

\* The kind is one extract was asked for.
SelectedKind(p, type) == args[p].only = {} \/ type \in args[p].only

\* p takes a turn of extract's loop in this step.
ExtractTurn(p) == pc[p] = "extract" /\ loc'[p].m # loc[p].m

\* C25: extract is lenient per kind: whether or not read_live or write_local of a
\* kind raises, no exception leaves extract, the loop goes on to the next kind of
\* the registry and calls read_live on it if it is selected, and the result is
\* the result so far plus the artifacts of the kind when it succeeded.
C25_ExtractLenient ==
    /\ [][ \A p \in Procs :
              ExtractTurn(p) =>
                  LET m == loc[p].m
                      type == DEPLOY_ORDER[m]
                      live == loc'[p].live
                  IN /\ loc'[p].m = m + 1
                     /\ pc'[p] = IF m = Len(DEPLOY_ORDER) THEN "extracted" ELSE "extract"
                     /\ loc'[p].uncaught = None
                     /\ exitCode'[p] = NotExited
                     /\ IF SelectedKind(p, type)
                        THEN /\ live.type = type
                             /\ loc'[p].all_artifacts =
                                   IF live.raised = None
                                   THEN DictUpdate(loc[p].all_artifacts, live.artifacts)
                                   ELSE loc[p].all_artifacts
                        ELSE /\ live = loc[p].live
                             /\ loc'[p].all_artifacts = loc[p].all_artifacts ]_vars
    /\ [](\A p \in Procs :
            pc[p] = "extracted" =>
                /\ loc[p].m = Len(DEPLOY_ORDER) + 1
                /\ \A key \in DOMAIN loc[p].all_artifacts : SelectedKind(p, Item(key).type))

\* write_local of the apis raised after the backends were extracted: the backend is
\* in the result, the api is not, and the loop is at the next kind.
C25_Witness ==
    \E p \in Procs :
        /\ pc[p] = "extract"
        /\ loc[p].live.type = "api"
        /\ loc[p].live.raised = "write_local"
        /\ DOMAIN loc[p].all_artifacts = {"backend:b1"}
        /\ DEPLOY_ORDER[loc[p].m] = "subscription"

\* extract has returned and cmd_extract ended.
ExtractReturned(p) == args[p].command = "extract" /\ pc[p] = "done"

\* The backend writes of a process.
Writes(p) == SelectSeq(log[p], LAMBDA e : e.op = "write")

\* C26: when extract returns with --update-state, state.artifacts holds exactly
\* the artifacts extracted in this run, under their keys, nothing of what the
\* state held before; last_applied is stamped and the store was written once,
\* with that state.  Without --update-state the store is not written.
C26_ExtractReplacesState ==
    \A p \in Procs :
        ExtractReturned(p) =>
            IF args[p].update_state
            THEN /\ DOMAIN state[p].artifacts = DOMAIN loc[p].all_artifacts
                 /\ \A k \in DOMAIN state[p].artifacts :
                       LET entry == state[p].artifacts[k]
                           artifact == loc[p].all_artifacts[k]
                       IN /\ entry.type = artifact.type
                          /\ entry.id = artifact.id
                          /\ entry.hash = artifact.hash
                          /\ entry.properties = artifact.properties
                 /\ state[p].last_applied = Now(p)
                 /\ Len(Writes(p)) = 1
                 /\ Writes(p)[1].doc = state[p]
            ELSE Writes(p) = <<>>

\* extract --only api --update-state on a state that recorded every artifact: the
\* state written holds the api alone, in the version found live.
C26_Witness ==
    \E p \in Procs :
        /\ ExtractReturned(p)
        /\ args[p].update_state
        /\ args[p].only = {"api"}
        /\ DOMAIN loc[p].entry = Keys
        /\ DOMAIN state[p].artifacts = {"api:echo"}
        /\ state[p].artifacts["api:echo"].hash = Artifact("api:echo", "v1").hash
        /\ store = state[p]


(***************************************************************************)
(* artifact_reader.py, artifacts/loggers.py, artifacts/policy_fragments.py:*)
(* the artifact files of one kind, written and read back (SpecTrip).       *)
(* A properties dict is a function from its keys to str values.  A         *)
(* directory is a function from entry names to nodes; a JSON file holds    *)
(* the dict json.dump wrote (json.load of json.dump of a dict of str is    *)
(* that dict), a text file the str written.                                *)
(***************************************************************************)
NoDict == [k \in {} |-> ""]

JsonFile(doc) == [isdir |-> FALSE, isjson |-> TRUE, json |-> doc, text |-> None]

TextFile(text) == [isdir |-> FALSE, isjson |-> FALSE, json |-> NoDict, text |-> text]

EmptyDir == [name \in {} |-> JsonFile(NoDict)]

Dir(files) == [isdir |-> TRUE, isjson |-> FALSE, json |-> NoDict, text |-> None, files |-> files]

\* The `"key":"value"` members of json.dumps(..., separators=(",", ":")).
RECURSIVE json_pairs(_, _)
json_pairs(properties, keys) ==
    IF keys = <<>> THEN ""
    ELSE "\"" \o Head(keys) \o "\":\"" \o properties[Head(keys)] \o "\""
         \o (IF Tail(keys) = <<>> THEN "" ELSE "," \o json_pairs(properties, Tail(keys)))

\* json.dumps(properties, sort_keys=True, separators=(",", ":"))
json_dumps(properties) == "{" \o json_pairs(properties, sorted(DOMAIN properties)) \o "}"

\* compute_hash(properties) of a dict of str.
props_hash(properties) == compute_hash(json_dumps(properties))

\* s.startswith(prefix) and s.endswith(suffix)
startswith(s, prefix) == Len(s) >= Len(prefix) /\ SubSeq(s, 1, Len(prefix)) = prefix

endswith(s, suffix) ==
    Len(s) >= Len(suffix) /\ SubSeq(s, Len(s) - Len(suffix) + 1, Len(s)) = suffix

\* entry.replace(".json", "") of an entry name that holds ".json" at its end only.
replace_json(entry) ==
    IF endswith(entry, ".json") THEN SubSeq(entry, 1, Len(entry) - 5) ELSE entry

\* id_path.rstrip("/")
RECURSIVE rstrip(_)
rstrip(id_path) ==
    IF endswith(id_path, "/") THEN rstrip(SubSeq(id_path, 1, Len(id_path) - 1)) ELSE id_path

\* extract_id_from_path: what follows the last "/" of the path without its
\* trailing slashes.
extract_id_from_path(id_path) ==
    LET path == rstrip(id_path)
        slashes == {i \in 1..Len(path) : SubSeq(path, i, i) = "/"}
        last == CHOOSE i \in slashes : \A j \in slashes : j <= i
    IN IF slashes = {} THEN path ELSE SubSeq(path, last + 1, Len(path))

\* props.get(key, default)
dict_get(props, key, default) == IF key \in DOMAIN props THEN props[key] ELSE default

\* props[key] = value
dict_set(props, key, value) ==
    [k \in (DOMAIN props) \cup {key} |-> IF k = key THEN value ELSE props[k]]

\* props.pop(key, None), the dict that is left.
dict_pop(props, key) == [k \in (DOMAIN props) \ {key} |-> props[k]]

\* The name resolve_refs stores a key under: "$ref-" is stripped.
ref_name(key) == IF startswith(key, "$ref-") THEN SubSeq(key, 6, Len(key)) ELSE key

\* resolve_refs of a dict of str (no "$refs-" key, no nested dict, and no key
\* present both plain and as "$ref-"): a "$ref-" key becomes the content of the
\* file it names when base_dir holds that file, its own value otherwise.
resolve_refs(props, base_dir) ==
    [name \in {ref_name(k) : k \in DOMAIN props} |->
        LET key == CHOOSE k \in DOMAIN props : ref_name(k) = name
            value == props[key]
        IN IF startswith(key, "$ref-") /\ value \in DOMAIN base_dir
              /\ ~base_dir[value].isdir /\ ~base_dir[value].isjson
           THEN base_dir[value].text
           ELSE value]

\* The artifact of a simple kind.
KindArtifact(type, id, props) ==
    [type |-> type, id |-> id, hash |-> props_hash(props), properties |-> props]

\* loggers.read_live: one artifact per item of client.list("/loggers"); `items`
\* maps each item's name to its properties.
loggers_read_live(items) ==
    [key \in {"logger:" \o name : name \in DOMAIN items} |->
        LET lg_id == CHOOSE name \in DOMAIN items : "logger:" \o name = key
        IN KindArtifact("logger", lg_id, items[lg_id])]

\* loggers.write_local into an empty output_dir: <id>.json holds the properties
\* and "id".
loggers_write_local(artifacts) ==
    [entry \in {artifacts[k].id \o ".json" : k \in DOMAIN artifacts} |->
        LET artifact == artifacts[CHOOSE k \in DOMAIN artifacts :
                                      artifacts[k].id \o ".json" = entry]
        IN JsonFile(dict_set(artifact.properties, "id", "/loggers/" \o artifact.id))]

\* loggers.read_local over the entries in sorted order; a later entry replaces an
\* earlier one under the same key.
RECURSIVE loggers_read_entries(_, _, _)
loggers_read_entries(base, entries, artifacts) ==
    IF entries = <<>> THEN artifacts
    ELSE LET entry == Head(entries)
             node == base[entry]
             props == resolve_refs(node.json, base)
             lg_id == extract_id_from_path(dict_get(props, "id", replace_json(entry)))
         IN IF ~endswith(entry, ".json") \/ node.isdir
            THEN loggers_read_entries(base, Tail(entries), artifacts)
            ELSE loggers_read_entries(base, Tail(entries),
                     DictUpdate(artifacts,
                         [k \in {"logger:" \o lg_id} |-> KindArtifact("logger", lg_id, props)]))

loggers_read_local(base) ==
    loggers_read_entries(base, sorted(DOMAIN base), [k \in {} |-> KindArtifact("logger", "", NoDict)])


\* policy_fragments.write_local into an empty output_dir: one directory per
\* artifact, holding policyFragmentInformation.json and, when the policy is
\* truthy, policy.xml with a "$ref-policy" key pointing at it.
policy_fragments_write_local(artifacts) ==
    [entry \in {artifacts[k].id : k \in DOMAIN artifacts} |->
        LET artifact == artifacts[CHOOSE k \in DOMAIN artifacts : artifacts[k].id = entry]
            policy_content == dict_get(artifact.properties, "policy", None)
            truthy == policy_content # None /\ policy_content # ""
            with_id == dict_set(dict_pop(artifact.properties, "policy"), "id",
                                "/policyFragments/" \o artifact.id)
            props == IF truthy THEN dict_set(with_id, "$ref-policy", "policy.xml") ELSE with_id
        IN Dir([name \in {"policyFragmentInformation.json"}
                         \cup (IF truthy THEN {"policy.xml"} ELSE {}) |->
                   IF name = "policy.xml" THEN TextFile(policy_content) ELSE JsonFile(props)])]

\* policy_fragments.read_local over the entries in sorted order: a directory is
\* read from its policyFragmentInformation.json, a .json file from itself, and
\* anything else is skipped.
RECURSIVE policy_fragments_read_entries(_, _, _)
policy_fragments_read_entries(base, entries, artifacts) ==
    IF entries = <<>> THEN artifacts
    ELSE LET entry == Head(entries)
             node == base[entry]
             info == "policyFragmentInformation.json"
             has_info == node.isdir /\ info \in DOMAIN node.files /\ ~node.files[info].isdir
             props == IF node.isdir
                      THEN resolve_refs(node.files[info].json, node.files)
                      ELSE resolve_refs(node.json, base)
             pf_id == extract_id_from_path(dict_get(props, "id", replace_json(entry)))
         IN IF (node.isdir /\ ~has_info) \/ (~node.isdir /\ ~endswith(entry, ".json"))
            THEN policy_fragments_read_entries(base, Tail(entries), artifacts)
            ELSE policy_fragments_read_entries(base, Tail(entries),
                     DictUpdate(artifacts,
                         [k \in {"policy_fragment:" \o pf_id} |->
                             KindArtifact("policy_fragment", pf_id, props)]))

policy_fragments_read_local(base) ==
    policy_fragments_read_entries(base, sorted(DOMAIN base),
                                  [k \in {} |-> KindArtifact("policy_fragment", "", NoDict)])

\* The remote loggers: up to two, each with any of two properties.
LoggerNames == {"l1", "l2"}

LoggerFields == {"description", "loggerType"}

LoggerValues == {"a", "b"}

RemoteLoggers ==
    UNION {[N -> UNION {[F -> LoggerValues] : F \in SUBSET LoggerFields}] :
              N \in SUBSET LoggerNames}

\* The policyFragments directories a source tree can hold for one fragment: as
\* f1.json or as f1/policyFragmentInformation.json; "id" absent, canonical, bare
\* or naming another fragment; the policy absent, inline, inline and empty, or
\* referenced as policy.xml (the file there or missing).
FragmentIds == {None, "/policyFragments/f1", "f1", "/policyFragments/g1"}

FragmentPolicies == {None, "inline", "empty", "ref", "dangling"}

FragmentProps(id, description, policy) ==
    LET a == IF id = None THEN NoDict ELSE dict_set(NoDict, "id", id)
        b == IF description = None THEN a ELSE dict_set(a, "description", description)
    IN CASE policy = None -> b
         [] policy = "inline" -> dict_set(b, "policy", "<fragment/>")
         [] policy = "empty" -> dict_set(b, "policy", "")
         [] OTHER -> dict_set(b, "$ref-policy", "policy.xml")

FragmentBase(layout, id, description, policy) ==
    LET doc == JsonFile(FragmentProps(id, description, policy))
        sidecar == IF policy = "ref" THEN {"policy.xml"} ELSE {}
    IN IF layout = "dir"
       THEN [entry \in {"f1"} |->
                Dir([name \in {"policyFragmentInformation.json"} \cup sidecar |->
                        IF name = "policy.xml" THEN TextFile("<fragment/>") ELSE doc])]
       ELSE [entry \in {"f1.json"} \cup sidecar |->
                IF entry = "policy.xml" THEN TextFile("<fragment/>") ELSE doc]

FragmentBases ==
    {FragmentBase(layout, id, description, policy) :
        layout \in {"file", "dir"}, id \in FragmentIds,
        description \in {None, "a"}, policy \in FragmentPolicies}

\* extract --update-state of the loggers into an empty directory (read_live,
\* write_local, state entries of extractor.py), then plan on that directory
\* (read_local, diff against the state).
ExtractTrip ==
    /\ fnIn.fn = "extract_trip"
    /\ ~fnOut.called
    /\ LET live == loggers_read_live(fnIn.items)
           tree == loggers_write_local(live)
           local == loggers_read_local(tree)
           entries == [k \in DOMAIN live |-> StateEntry(live[k])]
       IN fnOut' = [called |-> TRUE,
                    value |-> [live |-> live, tree |-> tree, local |-> local,
                               plan |-> diff(local, entries)]]
    /\ UNCHANGED <<procVars, rq, ordIn, ordOut, fnIn, tok, fs, blob>>

\* read_local of a policyFragments directory, write_local of what it returned
\* into a fresh directory, and read_local of that.
LocalTrip ==
    /\ fnIn.fn = "local_trip"
    /\ ~fnOut.called
    /\ LET first == policy_fragments_read_local(fnIn.base)
           tree == policy_fragments_write_local(first)
       IN fnOut' = [called |-> TRUE,
                    value |-> [first |-> first, tree |-> tree,
                               second |-> policy_fragments_read_local(tree)]]
    /\ UNCHANGED <<procVars, rq, ordIn, ordOut, fnIn, tok, fs, blob>>

InitTrip ==
    /\ NoProcs
    /\ rq = NewEnvelope
    /\ ordIn = <<>>
    /\ ordOut = NotCalled
    /\ tok = NewClient
    /\ NoFiles
    /\ fnOut = NotCalled
    /\ \/ \E items \in RemoteLoggers : fnIn = [fn |-> "extract_trip", items |-> items]
       \/ \E base \in FragmentBases : fnIn = [fn |-> "local_trip", base |-> base]

NextTrip == ExtractTrip \/ LocalTrip

SpecTrip == InitTrip /\ [][NextTrip]_vars

\* The (kind, id, hash) triples of a mapping of artifacts.
Triples(artifacts) ==
    {<<artifacts[k].type, artifacts[k].id, artifacts[k].hash>> : k \in DOMAIN artifacts}

\* C27: whatever the remote holds, the loggers read back from the tree that
\* extract wrote have the (kind, id, hash) triples read_live produced, and the
\* plan computed on that tree against the state extract --update-state recorded
\* has no change other than noop.
C27_ExtractRoundTrip ==
    (fnIn.fn = "extract_trip" /\ fnOut.called) =>
        /\ Triples(fnOut.value.local) = Triples(fnOut.value.live)
        /\ \A i \in DOMAIN fnOut.value.plan : fnOut.value.plan[i].action = NOOP

\* C28: a policy fragment read by read_local, written by write_local into a
\* fresh directory and read again has the same key and the same hash.
C28_LocalRoundTrip ==
    (fnIn.fn = "local_trip" /\ fnOut.called) =>
        /\ DOMAIN fnOut.value.second = DOMAIN fnOut.value.first
        /\ \A k \in DOMAIN fnOut.value.first :
              fnOut.value.second[k].hash = fnOut.value.first[k].hash


(***************************************************************************)
(* planner.py: generate_plan on every source tree, state and `only`        *)
(* (SpecPlan).                                                             *)
(***************************************************************************)
\* The kinds of the artifacts of the model.
Kinds == {Catalog[i].type : i \in 1..NumKeys}

GeneratePlanCall ==
    /\ fnIn.fn = "generate_plan"
    /\ ~fnOut.called
    /\ fnOut' = [called |-> TRUE,
                 value |-> generate_plan(fnIn.source, fnIn.state, fnIn.only)]
    /\ UNCHANGED <<procVars, rq, ordIn, ordOut, fnIn, tok, fs, blob>>

\* Every source tree, every state (none, or any entries in either version) and
\* every `only` (the empty set stands for None: cli passes a list or None).
InitPlan ==
    /\ NoProcs
    /\ rq = NewEnvelope
    /\ ordIn = <<>>
    /\ ordOut = NotCalled
    /\ tok = NewClient
    /\ NoFiles
    /\ fnOut = NotCalled
    /\ \E source \in SUBSET Keys, only \in SUBSET Kinds :
          \E st \in {Missing} \cup UNION {{StateOf(K, v) : v \in [K -> Versions]} :
                                             K \in SUBSET Keys} :
             fnIn = [fn |-> "generate_plan", source |-> source, state |-> st, only |-> only]

SpecPlan == InitPlan /\ [][GeneratePlanCall]_vars

\* generate_plan returned for a call with `only`.
PlannedOnly == fnIn.fn = "generate_plan" /\ fnOut.called /\ fnIn.only # {}

\* C29: with an `only` filter, every change of the plan has a kind of the filter,
\* and a state entry of a kind outside the filter has no change in the plan (no
\* delete either), whatever the source tree holds.
C29_OnlyFiltersBothSides ==
    PlannedOnly =>
        LET changes == fnOut.value.changes
        IN /\ \A i \in DOMAIN changes : changes[i].type \in fnIn.only
           /\ \A key \in DOMAIN fnIn.state.artifacts :
                 fnIn.state.artifacts[key].type \notin fnIn.only =>
                    \A i \in DOMAIN changes : changes[i].key # key

\* plan --only api on a tree that holds the api alone while the state recorded
\* the backend too: one change, for the api; the backend is not deleted.
C29_Witness ==
    /\ PlannedOnly
    /\ fnIn.only = {"api"}
    /\ fnIn.source = {"api:echo"}
    /\ "backend:b1" \in DOMAIN fnIn.state.artifacts
    /\ Len(fnOut.value.changes) = 1
    /\ fnOut.value.changes[1].key = "api:echo"


(***************************************************************************)
(* applier.py, extractor.py: the entries of state["artifacts"].            *)
(***************************************************************************)
\* The entries of a mapping that this run put: the source tree, the plans and the
\* service hold the artifacts in version "v1", the initial stores in "v0".
PutEntries(artifacts) ==
    {k \in DOMAIN artifacts : artifacts[k].properties.rev = "v1"}

\* The entry has the four members and takes each from the artifact.
EntryFrom(entry, artifact) ==
    /\ DOMAIN entry = {"type", "id", "hash", "properties"}
    /\ entry.type = artifact.type
    /\ entry.id = artifact.id
    /\ entry.hash = artifact.hash
    /\ entry.properties = artifact.properties

\* C30: every entry that apply_plan, apply_force or extract put into
\* state.artifacts, in the state a process holds and in the store it wrote, has
\* exactly type, id, hash and properties, each the artifact's: spec and operations
\* are not stored, and the hash is the one the artifact carried.
C30_StateEntryMembers ==
    /\ \A p \in Procs : \A k \in PutEntries(state[p].artifacts) :
          EntryFrom(state[p].artifacts[k], Artifact(k, "v1"))
    /\ \A k \in PutEntries(store.artifacts) :
          EntryFrom(store.artifacts[k], Artifact(k, "v1"))

\* apply --force has ended and stored the api, an artifact with operations: the
\* entry written has no operations member.
C30_Witness ==
    \E p \in Procs :
        /\ args[p].command = "apply"
        /\ args[p].force
        /\ pc[p] = "done"
        /\ "api:echo" \in PutEntries(store.artifacts)
        /\ Artifact("api:echo", "v1").operations # <<>>
        /\ store.artifacts["api:echo"] = state[p].artifacts["api:echo"]


(***************************************************************************)
(* artifacts/__init__.py, planner.py: the kinds a kind refers to, and      *)
(* order_changes on changes of a kind and of one it refers to (SpecDeps).  *)
(***************************************************************************)
\* The policy kinds: their documents may name a named value.
PolicyKinds ==
    {"policy_fragment", "service_policy", "api_policy", "product_policy",
     "api_operation_policy"}

\* <<prerequisite, dependent>>: the resource path of the dependent lies under a
\* resource of the prerequisite (resource_path of each association module), or
\* its document refers to one.
Requires ==
    {<<"named_value", k>> : k \in PolicyKinds}
    \cup {<<"product", "product_group">>, <<"group", "product_group">>,
          <<"product", "product_api">>, <<"api", "product_api">>,
          <<"product", "product_tag">>, <<"tag", "product_tag">>,
          <<"gateway", "gateway_api">>, <<"api", "gateway_api">>,
          <<"api", "api_tag">>, <<"tag", "api_tag">>,
          <<"api", "api_policy">>, <<"api", "api_diagnostic">>,
          <<"api", "api_operation_policy">>,
          <<"product", "product_policy">>}

\* Up to MaxOrderLen changes, each of one of the two kinds of a pair of Requires.
InitDeps ==
    /\ NoProcs
    /\ rq = NewEnvelope
    /\ \E pair \in Requires : \E n \in 0..MaxOrderLen :
          \E f \in [1..n -> Actions \X {pair[1], pair[2]}] : ordIn = ChangeList(n, f)
    /\ ordOut = NotCalled
    /\ NoFnCall
    /\ tok = NewClient
    /\ NoFiles

SpecDeps == InitDeps /\ [][OrderCall]_vars

\* Position of a kind in the registry.
RegistryIndex(kind) == CHOOSE i \in 1..Len(DEPLOY_ORDER) : DEPLOY_ORDER[i] = kind

\* C31: the registry has 22 kinds, no kind twice, and every kind comes after each
\* kind it refers to; in the order order_changes gives, the create of a dependent
\* comes after every create of a prerequisite, and the delete of a dependent
\* before every delete of a prerequisite.
C31_RegistryOrder ==
    /\ Len(DEPLOY_ORDER) = 22
    /\ Cardinality(ARTIFACT_TYPES) = 22
    /\ \A pair \in Requires :
          /\ {pair[1], pair[2]} \subseteq ARTIFACT_TYPES
          /\ RegistryIndex(pair[1]) < RegistryIndex(pair[2])
    /\ ordOut.called =>
          \A i, j \in DOMAIN ordOut.value :
             LET pre == ordOut.value[i]
                 dep == ordOut.value[j]
             IN <<pre.type, dep.type>> \in Requires =>
                   /\ (pre.action = CREATE /\ dep.action = CREATE) => i < j
                   /\ (pre.action = DELETE /\ dep.action = DELETE) => j < i

\* A plan that lists the product_api before its api and its product: the creates
\* come out with the product_api last; and one that deletes the api before its
\* api_policy comes out with the api_policy first.
C31_Witness ==
    /\ ordOut.called
    /\ \/ /\ Len(ordIn) = 3
          /\ ordIn[1].type = "product_api" /\ ordIn[2].type = "api" /\ ordIn[3].type = "api"
          /\ \A i \in 1..3 : ordIn[i].action = CREATE
          /\ ordOut.value[3].type = "product_api"
       \/ /\ Len(ordIn) = 2
          /\ ordIn[1].type = "api" /\ ordIn[2].type = "api_policy"
          /\ \A i \in 1..2 : ordIn[i].action = DELETE
          /\ ordOut.value[1].type = "api_policy"


(***************************************************************************)
(* cli.py: the plan command beside other commands (SpecConc).              *)
(***************************************************************************)
\* C32: a step of a plan command leaves the state document and the lock file as
\* they were, and the command holds no lock and logs no write at any time, also
\* while another process holds the lock and applies.
C32_PlanReadOnly ==
    /\ [][\A p \in Procs :
            (args[p].command = "plan" /\ pc'[p] # pc[p]) =>
                /\ store' = store
                /\ lockFile' = lockFile
                /\ holds' = holds]_vars
    /\ [](\A p \in Procs : args[p].command = "plan" => (~holds[p] /\ log[p] = <<>>))

\* plan has read the state and ended while an apply held the lock, had written
\* the state and was not yet done.
C32_Witness ==
    \E p, q \in Procs :
        /\ args[p].command = "plan"
        /\ pc[p] = "done"
        /\ state[p].exists
        /\ args[q].command = "apply"
        /\ holds[q]
        /\ lockFile = q
        /\ pc[q] # "done"
        /\ \E e \in 1..Len(log[q]) : log[q][e].op = "write"
        /\ state[p] = store


(***************************************************************************)
(* planner.py: what order_changes keeps (SpecOrder).  The changes of the   *)
(* input carry their position as key, so key order is the order diff gave. *)
(***************************************************************************)
\* Both changes are puts, or both are deletes.
SamePart(c, d) ==
    \/ c.action \in {CREATE, UPDATE} /\ d.action \in {CREATE, UPDATE}
    \/ c.action = DELETE /\ d.action = DELETE

\* C33: order_changes returns each change of the plan that is not a noop exactly
\* once and nothing else, and two changes of the same kind in the same part
\* (create/update, or delete) stay in key order.
C33_OrderPermutation ==
    ordOut.called =>
        LET out == ordOut.value
            kept == {i \in 1..Len(ordIn) : ordIn[i].action # NOOP}
        IN /\ Len(out) = Cardinality(kept)
           /\ \A i \in kept : \E j \in 1..Len(out) : out[j] = ordIn[i]
           /\ \A i, j \in 1..Len(out) :
                 (i < j /\ out[i].type = out[j].type /\ SamePart(out[i], out[j]))
                     => out[i].key < out[j].key

\* Two deletes of one kind around a noop:
\* the noop is dropped and the two deletes of the same kind keep their order.
C33_Witness ==
    /\ ordOut.called
    /\ Len(ordIn) = 3
    /\ ordIn[1].action = DELETE /\ ordIn[1].type = "api"
    /\ ordIn[2].action = NOOP
    /\ ordIn[3].action = DELETE /\ ordIn[3].type = "api"
    /\ Len(ordOut.value) = 2
    /\ ordOut.value[1].key = 1
    /\ ordOut.value[2].key = 3


(***************************************************************************)
(* artifact_reader.py: compute_hash on JSON trees (SpecHash).  A mapping   *)
(* is the sequence of its items in insertion order, as json.load builds    *)
(* it; a list is the sequence of its elements.                             *)
(***************************************************************************)
JStr(s) == [kind |-> "str", s |-> s, items |-> <<>>]

JList(elems) == [kind |-> "list", s |-> "", items |-> elems]

JItem(key, value) == [key |-> key, value |-> value]

JDict(items) == [kind |-> "dict", s |-> "", items |-> items]

\* The items of a mapping as json.dumps(sort_keys=False) would write them.
dict_items_as_inserted(items) == items

\* The items of a mapping as json.dumps(sort_keys=True) writes them: by key.
dict_items(items) ==
    LET keys == sorted({items[i].key : i \in 1..Len(items)})
    IN [n \in 1..Len(keys) |-> items[CHOOSE i \in 1..Len(items) : items[i].key = keys[n]]]

\* json.dumps(tree, sort_keys=True, separators=(",", ":"))
RECURSIVE tree_dumps(_)
RECURSIVE tree_join(_, _)
tree_join(items, isdict) ==
    IF items = <<>> THEN ""
    ELSE (IF isdict
          THEN "\"" \o Head(items).key \o "\":" \o tree_dumps(Head(items).value)
          ELSE tree_dumps(Head(items)))
         \o (IF Tail(items) = <<>> THEN "" ELSE "," \o tree_join(Tail(items), isdict))

tree_dumps(tree) ==
    CASE tree.kind = "str" -> "\"" \o tree.s \o "\""
      [] tree.kind = "list" -> "[" \o tree_join(tree.items, FALSE) \o "]"
      [] OTHER -> "{" \o tree_join(dict_items(tree.items), TRUE) \o "}"

\* compute_hash(properties) of a tree.
tree_hash(tree) == compute_hash(tree_dumps(tree))

\* Equal up to the order of the keys of the mappings, at every depth.
RECURSIVE KeyOrderEqual(_, _)
KeyOrderEqual(t1, t2) ==
    /\ t1.kind = t2.kind
    /\ CASE t1.kind = "str" -> t1.s = t2.s
         [] t1.kind = "list" ->
               /\ Len(t1.items) = Len(t2.items)
               /\ \A i \in 1..Len(t1.items) : KeyOrderEqual(t1.items[i], t2.items[i])
         [] OTHER ->
               /\ Len(t1.items) = Len(t2.items)
               /\ \A i \in 1..Len(t1.items) :
                     \E j \in 1..Len(t2.items) :
                        /\ t1.items[i].key = t2.items[j].key
                        /\ KeyOrderEqual(t1.items[i].value, t2.items[j].value)

\* The trees of the model: a mapping with the keys "a" and "b" in either order,
\* "a" holding a string, a mapping of one or two keys in either order, or a list
\* with such a mapping in it.
JLeaves == {JStr("u"), JStr("v")}

JInner ==
    {JDict(<<JItem("x", JStr("u"))>>)}
    \cup {JDict(<<JItem("x", v), JItem("y", w)>>) : v, w \in JLeaves}
    \cup {JDict(<<JItem("y", w), JItem("x", v)>>) : v, w \in JLeaves}

JLists ==
    {JList(<<d, JStr("u")>>) :
        d \in {JDict(<<JItem("x", JStr("u")), JItem("y", JStr("v"))>>),
               JDict(<<JItem("y", JStr("v")), JItem("x", JStr("u"))>>)}}
    \cup {JList(<<JStr("u"), JDict(<<JItem("x", JStr("u")), JItem("y", JStr("v"))>>)>>)}

JTrees ==
    UNION {{JDict(<<JItem("a", a), JItem("b", b)>>), JDict(<<JItem("b", b), JItem("a", a)>>)} :
              a \in JLeaves \cup JInner \cup JLists, b \in {JStr("u")}}

HashTwo ==
    /\ fnIn.fn = "compute_hash"
    /\ ~fnOut.called
    /\ fnOut' = [called |-> TRUE,
                 value |-> [h1 |-> tree_hash(fnIn.t1), h2 |-> tree_hash(fnIn.t2)]]
    /\ UNCHANGED <<procVars, rq, ordIn, ordOut, fnIn, tok, fs, blob>>

InitHash ==
    /\ NoProcs
    /\ rq = NewEnvelope
    /\ ordIn = <<>>
    /\ ordOut = NotCalled
    /\ tok = NewClient
    /\ NoFiles
    /\ fnOut = NotCalled
    /\ \E t1, t2 \in JTrees : fnIn = [fn |-> "compute_hash", t1 |-> t1, t2 |-> t2]

SpecHash == InitHash /\ [][HashTwo]_vars

\* compute_hash returned for both trees.
Hashed == fnIn.fn = "compute_hash" /\ fnOut.called

\* C34: two trees that are equal up to the order of the keys of their mappings,
\* at any depth, have the same hash, and the hash is "sha256:" followed by the
\* digest of the canonical text.
C34_HashDeterminism ==
    Hashed =>
        /\ KeyOrderEqual(fnIn.t1, fnIn.t2) => fnOut.value.h1 = fnOut.value.h2
        /\ SubSeq(fnOut.value.h1, 1, 7) = "sha256:"
        /\ SubSeq(fnOut.value.h2, 1, 7) = "sha256:"

\* Two trees that differ in the key order of the outer mapping and of the mapping
\* inside the list under "a", and hash to the same value.
C34_Witness ==
    /\ Hashed
    /\ fnIn.t1.items[1].key = "a"
    /\ fnIn.t2.items[1].key = "b"
    /\ fnIn.t1.items[1].value.kind = "list"
    /\ fnIn.t1.items[1].value.items[1].kind = "dict"
    /\ fnIn.t1.items[1].value.items[1].items[1].key = "x"
    /\ fnIn.t2.items[2].value.kind = "list"
    /\ fnIn.t2.items[2].value.items[1].kind = "dict"
    /\ fnIn.t2.items[2].value.items[1].items[1].key = "y"
    /\ fnOut.value.h1 = fnOut.value.h2


(***************************************************************************)
(* apim_client.py: what the envelope ends with on an error response        *)
(* (SpecRetry).                                                            *)
(***************************************************************************)
\* C35: on a response with status >= 400 the envelope goes on to another attempt
\* or raises the API fault class of that status; it never ends with an exception
\* of another kind, whatever the body is.
C35_ClassifiedFault ==
    (rq.last.raises = None /\ rq.last.status >= 400) =>
        \/ rq.result = Pending
        \/ rq.result = _create_exception(rq.last.status)


(***************************************************************************)
(* applier.py: the store writes of apply_plan in normal mode (Spec).       *)
(***************************************************************************)
\* The apply of a plan file without create, update or delete has ended.
NothingToApply(p) ==
    /\ args[p].command = "apply"
    /\ args[p].plan.given
    /\ executable_changes(args[p].plan) = <<>>
    /\ pc[p] = "done"

\* C36: when apply_plan has returned from a plan with n >= 1 executable changes,
\* a run without error made n + 1 writes, the last one with last_applied stamped
\* and no earlier one; a run that failed at change i made i - 1 writes and
\* neither its state nor the store is stamped.  An apply of a plan without
\* executable changes made no REST call and no write and ended without error.
C36_StampAfterAll ==
    \A p \in Procs :
        /\ PlanReturned(p) =>
              LET W == Writes(p)
                  n == loc[p].total
              IN IF loc[p].error = None
                 THEN /\ loc[p].success = n
                      /\ Len(W) = n + 1
                      /\ W[n + 1].doc.last_applied = Now(p)
                      /\ \A w \in 1..n : W[w].doc.last_applied # Now(p)
                      /\ state[p].last_applied = Now(p)
                 ELSE /\ Len(Issued(p)) = loc[p].success + 1
                      /\ Len(W) = Len(Issued(p)) - 1
                      /\ \A w \in 1..Len(W) : W[w].doc.last_applied # Now(p)
                      /\ state[p].last_applied # Now(p)
                      /\ store.last_applied # Now(p)
        /\ NothingToApply(p) =>
              /\ log[p] = <<>>
              /\ loc[p].success = 0
              /\ loc[p].total = 0
              /\ exitCode[p] = 0
              /\ store.last_applied # Now(p)

\* A plan of three changes whose second change failed: one write, no stamp.
C36_Witness ==
    \E p \in Procs :
        /\ PlanReturned(p)
        /\ loc[p].total = 3
        /\ loc[p].error # None
        /\ Len(Issued(p)) = 2
        /\ Len(Writes(p)) = 1
        /\ store.last_applied = "t:earlier"


(***************************************************************************)
(* cli.py: lock() and the try/finally of cmd_apply, with exceptions that   *)
(* leave the try block (SpecFinally).                                      *)
(***************************************************************************)
NextFinally == \E p \in Procs : Step(p) \/ ApplyRaises(p)

SpecFinally == InitConc /\ [][NextFinally]_vars

\* C37: an apply that has exited holds no lock and the lock file does not name
\* it, whether it succeeded, failed at a change or left its try block by an
\* exception; the step that ends its hold removes the lock file; and an apply
\* whose lock() fails exits leaving the lock file as it was.
C37_LockReleased ==
    /\ [](\A p \in Procs :
            (args[p].command = "apply" /\ pc[p] = "done") => (~holds[p] /\ lockFile # p))
    /\ [][\A p \in Procs :
            /\ (holds[p] /\ ~holds'[p]) => lockFile' = NoFile
            /\ (args[p].command = "apply" /\ pc[p] = "lock" /\ pc'[p] = "done") =>
                  (lockFile # NoFile /\ lockFile' = lockFile)]_vars

\* One apply was refused the lock and exited, the other left its try block by an
\* exception and has exited too: no lock file is left.
C37_Witness ==
    \E p, q \in Procs :
        /\ args[p].command = "apply" /\ pc[p] = "done"
        /\ loc[p].uncaught = "OSError"
        /\ args[q].command = "apply" /\ pc[q] = "done"
        /\ loc[q].uncaught = LockedFault
        /\ lockFile = NoFile


(***************************************************************************)
(* cli.py: apply without --plan and without --force (Spec).                *)
(***************************************************************************)
\* p is an apply that computes its own plan.
PlansItself(p) ==
    /\ args[p].command = "apply"
    /\ ~args[p].plan.given
    /\ ~args[p].force

LEASE_DURATION == 60

\* The service's lease: who holds it and until when.
Lease(id, until) == [state |-> "leased", id |-> id, until |-> until]

NoLease == [state |-> "available", id |-> None, until |-> 0]

\* A lease the service still honours at time `now`.
Active(lease, now) == lease.state = "leased" /\ now < lease.until

\* lease_client.acquire(lease_duration=LEASE_DURATION) at time `now`.
acquire(lease, id, now) ==
    IF Active(lease, now) THEN lease ELSE Lease(id, now + LEASE_DURATION)

\* lock(): acquire, remember the lease, clear the stop flag, start the renew
\* thread, whose first wait() times out half a lease later.
LeaseLock ==
    /\ blob._lease = None
    /\ blob.thread \in {"none", "ended"}
    /\ IF Active(blob.lease, blob.now)
       THEN blob' = [blob EXCEPT !.write = "RuntimeError"]
       ELSE blob' = [blob EXCEPT !.lease = acquire(@, "holder", blob.now),
                                 !._lease = "holder",
                                 !._stop_renew = FALSE,
                                 !.thread = "wait",
                                 !.wake = blob.now + LEASE_DURATION \div 2,
                                 !.write = None,
                                 !.other = FALSE]
    /\ UNCHANGED <<procVars, rq, ordIn, ordOut, fnIn, fnOut, tok, fs>>

\* unlock(): set the stop flag, release the lease (errors swallowed), forget it.
LeaseUnlock ==
    /\ blob._lease # None
    /\ blob' = [blob EXCEPT !._stop_renew = TRUE,
                            !.lease = IF blob.lease.id = blob._lease THEN NoLease ELSE @,
                            !._lease = None]
    /\ UNCHANGED <<procVars, rq, ordIn, ordOut, fnIn, fnOut, tok, fs>>

\* One pass of _renew_loop when its wait() returns: True (flag set) ends the
\* loop; at the timeout renew() is called, and an exception, whether the service
\* refused or the call failed on the way, breaks out of the loop.
RenewPass(raises) ==
    /\ blob.thread = "wait"
    /\ blob._stop_renew \/ blob.now >= blob.wake
    /\ IF blob._stop_renew
       THEN blob' = [blob EXCEPT !.thread = "ended"]
       ELSE IF blob._lease = None
       THEN blob' = [blob EXCEPT !.wake = blob.now + LEASE_DURATION \div 2]
       ELSE IF raises \/ blob.lease.id # blob._lease
       THEN blob' = [blob EXCEPT !.thread = "ended"]
       ELSE blob' = [blob EXCEPT !.lease.until = blob.now + LEASE_DURATION,
                                 !.wake = blob.now + LEASE_DURATION \div 2]
    /\ UNCHANGED <<procVars, rq, ordIn, ordOut, fnIn, fnOut, tok, fs>>

\* write(): the upload carries the lease when the object has one; the service
\* accepts it when that lease is the active one, or when there is neither.
LeaseWrite ==
    /\ blob' = [blob EXCEPT !.write =
                    IF blob._lease = None
                    THEN IF Active(blob.lease, blob.now) THEN "LeaseMissing" ELSE "ok"
                    ELSE IF Active(blob.lease, blob.now) /\ blob.lease.id = blob._lease
                         THEN "ok" ELSE "LeaseLost"]
    /\ blob.write # blob'.write
    /\ UNCHANGED <<procVars, rq, ordIn, ordOut, fnIn, fnOut, tok, fs>>

\* lock() of another process on the same blob.
OtherLock ==
    /\ ~Active(blob.lease, blob.now)
    /\ blob' = [blob EXCEPT !.lease = acquire(@, "other", blob.now),
                            !.other = TRUE]
    /\ UNCHANGED <<procVars, rq, ordIn, ordOut, fnIn, fnOut, tok, fs>>

\* unlock() of that other process.
OtherUnlock ==
    /\ blob.lease.id = "other"
    /\ blob' = [blob EXCEPT !.lease = NoLease]
    /\ UNCHANGED <<procVars, rq, ordIn, ordOut, fnIn, fnOut, tok, fs>>

\* Half a lease passes; a renew thread whose wait() has timed out runs first.
LeaseTick ==
    /\ blob.now + LEASE_DURATION \div 2 <= MaxClock
    /\ blob.thread = "wait" => blob.now < blob.wake /\ ~blob._stop_renew
    /\ blob' = [blob EXCEPT !.now = @ + LEASE_DURATION \div 2]
    /\ UNCHANGED <<procVars, rq, ordIn, ordOut, fnIn, fnOut, tok, fs>>

InitLease ==
    /\ NoProcs
    /\ rq = NewEnvelope
    /\ ordIn = <<>>
    /\ ordOut = NotCalled
    /\ NoFnCall
    /\ tok = NewClient
    /\ fs = Unused
    /\ blob = [now |-> 0, lease |-> NoLease, _lease |-> None, _stop_renew |-> FALSE,
               thread |-> "none", wake |-> 0, write |-> None, other |-> FALSE]

NextLease ==
    \/ LeaseLock
    \/ LeaseUnlock
    \/ \E raises \in BOOLEAN : RenewPass(raises)
    \/ LeaseWrite
    \/ OtherLock
    \/ OtherUnlock
    \/ LeaseTick

SpecLease == InitLease /\ [][NextLease]_vars

\* C39: between a successful lock() and the matching unlock() the lease is the
\* holder's and has not lapsed, no lock() of another process has succeeded, and
\* no write of the holder was refused for its lease, also after a renewal raised.
C39_LeaseNeverLapses ==
    blob._lease # None =>
        /\ Active(blob.lease, blob.now)
        /\ blob.lease.id = blob._lease
        /\ ~blob.other
        /\ blob.write # "LeaseLost"


(***************************************************************************)
(* applier.py: the state apply_force leaves behind (Spec).                 *)
(***************************************************************************)
\* The artifacts all of whose PUTs succeeded in this run.
PushedKeys(p) == Selected(p) \ FailedKeys(p)

\* C40: when apply_force has returned, state.artifacts holds exactly the keys
\* whose PUTs succeeded in this run, each with the local artifact's hash, so no
\* entry from before the run is left, of whatever kind; last_applied carries this
\* run's stamp, also when every PUT failed; and the store holds that same state.
C40_ForceRebuildsState ==
    \A p \in Procs :
        ForceReturned(p) =>
            /\ DOMAIN state[p].artifacts = PushedKeys(p)
            /\ \A k \in PushedKeys(p) :
                  state[p].artifacts[k].hash = Artifact(k, "v1").hash
            /\ state[p].last_applied = Now(p)
            /\ store = state[p]

\* apply --force --only api has returned with every PUT failed: the store has no
\* entry at all and carries this run's stamp.
C40_Witness ==
    \E p \in Procs :
        /\ ForceReturned(p)
        /\ args[p].only = {"api"}
        /\ Selected(p) # {}
        /\ FailedKeys(p) = Selected(p)
        /\ DOMAIN store.artifacts = {}
        /\ store.last_applied = Now(p)

====
